---- MODULE Spec2Model ----
(***************************************************************************)
(* Chunked export pipeline of AlphaVideoMaker.                             *)
(*                                                                         *)
(* ExportController.start() drives FrameRenderer.renderChunk and           *)
(* ChunkedEncoder.encodeChunk chunk by chunk, then ChunkedEncoder          *)
(* .mergeChunks, and always runs ExportController.cleanup.  The encode     *)
(* engine is a worker reached through FFmpegBridge; every bridge call is   *)
(* an await.  One action of this model is one resumption of the async      *)
(* code: the awaited operation settles and the code runs synchronously up  *)
(* to its next await.  cancel() is a separate action that can run between  *)
(* any two resumptions.                                                    *)
(*                                                                         *)
(* Time is counted in ticks of 1/TicksPerSecond second, so that            *)
(* duration * fps is an exact rational.                                    *)
(***************************************************************************)
EXTENDS Integers, Sequences, FiniteSets, TLC

\* ------------------------------------------------------------------ bounds
MaxTicks == 4
MaxChunkFrames == 3
MaxRuns == 2
MaxRefusals == 1
MaxSourceTicks == 2
MaxFairTicks == 2
MaxSends == 2
MaxCacheFrames == 2
CacheTotalFrames == 3
MaxCalls == 2
MaxRenders == 3
MaxAhead == 2

TicksPerSecond == 60
FpsOption == {30, 60}

\* config.playbackRate as a fraction; DefaultRate: config.playbackRate ?? 1
DefaultRate == [num |-> 1, den |-> 1]
PlaybackRates == {[num |-> 1, den |-> 2], DefaultRate, [num |-> 2, den |-> 1]}

\* ------------------------------------------------------------- arithmetic
\* Math.ceil(a / b) for a >= 0, b > 0
Ceil(a, b) == (a + b - 1) \div b

\* Math.round(a / b) for a >= 0, b > 0 (round half up)
Round(a, b) == (2 * a + b) \div (2 * b)

Min(a, b) == IF a < b THEN a ELSE b

\* -------------------------------------------------- names in engine storage
DigitChar == <<"0", "1", "2", "3", "4", "5", "6", "7", "8", "9">>

RECURSIVE toString(_)
toString(n) ==
  IF n < 10 THEN <<DigitChar[n + 1]>>
  ELSE toString(n \div 10) \o <<DigitChar[(n % 10) + 1]>>

RECURSIVE padStart(_, _, _)
padStart(s, len, ch) ==
  IF Len(s) >= len THEN s ELSE padStart(<<ch>> \o s, len, ch)

getFrameFilename(frameIndex) ==
  <<"frame_">> \o padStart(toString(frameIndex), 4, "0") \o <<".png">>

getChunkDirName(chunkIndex) ==
  <<"chunk_">> \o padStart(toString(chunkIndex), 3, "0")

getPartFilename(chunkIndex) ==
  <<"part_">> \o padStart(toString(chunkIndex), 3, "0") \o <<".mov">>

framePath(chunkDir, i) == chunkDir \o <<"/">> \o getFrameFilename(i)

listPath == <<"concat_list.txt">>
outputPath == <<"output.mov">>

\* generateConcatList: one line per part path, in array order
generateConcatList(paths) == [n \in 1..Len(paths) |-> <<"file '">> \o paths[n] \o <<"'">>]

\* the path named by a line of the concat list
ListedPath(line) == SubSeq(line, 2, Len(line) - 1)


\* ------------------------------------------------------------------- state
VARIABLES
  config,            \* ExportController.config: [fps, ticks, chunkFrames, playbackRate]
  env,               \* detectEnvironment(): [hasWasm]; frame source: [sourceTicks]
  isRunning,         \* ExportController.isRunning
  cancelled,         \* ExportController.cancelled
  frameRenderer,     \* ExportController.frameRenderer is not null
  ffmpegBridge,      \* ExportController.ffmpegBridge is not null
  chunkedEncoder,    \* ExportController.chunkedEncoder is not null
  pc,                \* the await at which start() is suspended ("idle": not in start())
  chunkIndex,        \* start(): loop variable
  frames,            \* the frame array of renderChunk / encodeChunk
  i,                 \* renderChunk: loop variable (global frame index)
  j,                 \* ChunkedEncoder: loop variable of the loop in progress
  error,             \* the error a catch block holds while it cleans up
  data,              \* mergeChunks: bytes read back
  ret,               \* who awaits ChunkedEncoder.cleanup
  outcome,           \* the value start() is about to return
  rendererCancelled, \* FrameRenderer.cancelled
  encoderCancelled,  \* ChunkedEncoder.cancelled
  partPaths,         \* ChunkedEncoder.partPaths
  worker,            \* FFmpegBridge.worker: "none", "starting", "ready", "terminated"
  isReady,           \* FFmpegBridge.isReady
  messageId,         \* FFmpegBridge.messageId
  request,           \* the request the worker has not answered yet
  isLoaded,          \* worker: isLoaded
  fs,                \* worker: the engine's virtual file system, path -> content
  disposeCalls,      \* frame source: dispose() calls of this run
  renderLog,         \* frame source: renderAt calls in order, [chunk, frame, time]
  events,            \* progress events delivered to onProgress in this run
  execLog,           \* exec commands sent to the engine in this run
  cleanups,          \* ExportController.cleanup invocations of this run
  cancelInfo,        \* where the run was when cancel() was first called
  result,            \* what the last start() returned
  runs,              \* start() calls that passed the guard
  deleteLog,         \* paths of the delete requests sent to the engine in this run
  terminateCalls,    \* Worker.terminate() calls on this run's worker
  pendingRenders,    \* frame source: renderAt calls not settled yet, [run, frame]
  refusals,          \* what the start() calls stopped by the guard returned
  bridge,            \* an FFmpegBridge on its own: [worker, isReady, messageId,
                     \*   messageHandlers, readyResolved, progressHandler, logHandler]
  sends,             \* the sendMessage calls made on that bridge, in call order
  workerScope,       \* that bridge's worker: [state, isLoaded, inbox, running, ...]
  workerMessages,    \* messages posted by that worker, not yet dispatched to the bridge
  frameCache,        \* a FrameCache: [maxFrames, cache, lruOrder, pendingRenders,
                     \*   prefetchQueue, isPrefetching, disposed]
  renders,           \* that cache's onRenderFrame invocations in flight, [id, frame]
  cacheCalls,        \* the getOrRender calls made on that cache, in call order
  prefetcher,        \* processPrefetchQueue: where it is suspended, callbacks scheduled
  cacheHistory       \* what is remembered of that cache's past

vars == <<config, env, isRunning, cancelled, frameRenderer, ffmpegBridge,
          chunkedEncoder, pc, chunkIndex, frames, i, j, error, data, ret,
          outcome, rendererCancelled, encoderCancelled, partPaths, worker,
          isReady, messageId, request, isLoaded, fs, disposeCalls, renderLog,
          events, execLog, cleanups, cancelInfo, result, runs, deleteLog,
          terminateCalls, pendingRenders, refusals,
          bridge, sends, workerScope, workerMessages,
          frameCache, renders, cacheCalls, prefetcher, cacheHistory>>

controllerVars ==
  <<config, env, isRunning, cancelled, frameRenderer, ffmpegBridge,
    chunkedEncoder, pc, chunkIndex, frames, i, j, error, data, ret,
    outcome, rendererCancelled, encoderCancelled, partPaths, worker,
    isReady, messageId, request, isLoaded, fs, disposeCalls, renderLog,
    events, execLog, cleanups, cancelInfo, result, runs, deleteLog,
    terminateCalls, pendingRenders, refusals>>

\* the variables of the bridge taken on its own, with any number of requests
\* outstanding (the controller keeps one request outstanding: request)
bridgeVars == <<bridge, sends, workerScope, workerMessages>>

\* the variables of the preview's frame cache
cacheVars == <<frameCache, renders, cacheCalls, prefetcher, cacheHistory>>

\* the current state as one record, so that the synchronous stretches of the
\* async code compose as functions from state to state
Cur ==
  [config |-> config, env |-> env, isRunning |-> isRunning,
   cancelled |-> cancelled, frameRenderer |-> frameRenderer,
   ffmpegBridge |-> ffmpegBridge, chunkedEncoder |-> chunkedEncoder,
   pc |-> pc, chunkIndex |-> chunkIndex, frames |-> frames, i |-> i, j |-> j,
   error |-> error, data |-> data, ret |-> ret, outcome |-> outcome,
   rendererCancelled |-> rendererCancelled,
   encoderCancelled |-> encoderCancelled, partPaths |-> partPaths,
   worker |-> worker, isReady |-> isReady, messageId |-> messageId,
   request |-> request, isLoaded |-> isLoaded, fs |-> fs,
   disposeCalls |-> disposeCalls, renderLog |-> renderLog, events |-> events,
   execLog |-> execLog, cleanups |-> cleanups, cancelInfo |-> cancelInfo,
   result |-> result, runs |-> runs, deleteLog |-> deleteLog,
   terminateCalls |-> terminateCalls, pendingRenders |-> pendingRenders,
   refusals |-> refusals]

Commit(s) ==
  /\ config' = s.config /\ env' = s.env /\ isRunning' = s.isRunning
  /\ cancelled' = s.cancelled /\ frameRenderer' = s.frameRenderer
  /\ ffmpegBridge' = s.ffmpegBridge /\ chunkedEncoder' = s.chunkedEncoder
  /\ pc' = s.pc /\ chunkIndex' = s.chunkIndex /\ frames' = s.frames
  /\ i' = s.i /\ j' = s.j /\ error' = s.error /\ data' = s.data
  /\ ret' = s.ret /\ outcome' = s.outcome
  /\ rendererCancelled' = s.rendererCancelled
  /\ encoderCancelled' = s.encoderCancelled /\ partPaths' = s.partPaths
  /\ worker' = s.worker /\ isReady' = s.isReady /\ messageId' = s.messageId
  /\ request' = s.request /\ isLoaded' = s.isLoaded /\ fs' = s.fs
  /\ disposeCalls' = s.disposeCalls /\ renderLog' = s.renderLog
  /\ events' = s.events /\ execLog' = s.execLog /\ cleanups' = s.cleanups
  /\ cancelInfo' = s.cancelInfo /\ result' = s.result /\ runs' = s.runs
  /\ deleteLog' = s.deleteLog /\ terminateCalls' = s.terminateCalls
  /\ pendingRenders' = s.pendingRenders /\ refusals' = s.refusals
  /\ UNCHANGED <<bridgeVars, cacheVars>>

\* ---------------------------------------------------------------- values
NoRequest ==
  [id |-> 0, type |-> "none", cmd |-> "", path |-> <<>>, out |-> <<>>, data |-> <<>>]
NoResult ==
  [returned |-> FALSE, rejected |-> FALSE, success |-> FALSE, error |-> "",
   blob |-> <<>>, filename |-> ""]
NoCancel ==
  [called |-> FALSE, pc |-> "", chunk |-> 0, execs |-> 0, renders |-> 0,
   merging |-> FALSE, terminal |-> FALSE, messageId |-> 0]
EmptyFs == [p \in {} |-> <<>>]

\* INITIAL_PROGRESS
INITIAL_PROGRESS ==
  [phase |-> "idle", currentFrame |-> 0, totalFrames |-> 0,
   currentChunk |-> 0, totalChunks |-> 0, percent |-> 0]

\* error messages
ErrRunning == "export already running"
ErrNoWasm == "WebAssembly not supported"
ErrNoContext == "cannot create output canvas context"
ErrExportCancelled == "export cancelled"
ErrRenderCancelled == "render cancelled"
ErrEncodeCancelled == "encode cancelled"
ErrRenderTimeout == "renderAt timeout"
ErrRenderFailed == "renderAt failed"
ErrCaptureFailed == "canvas toBlob failed"
ErrNoParts == "no parts to merge"
ErrEngine == "engine error"

\* FrameRenderer constructor: Math.ceil(duration * fps)
getTotalFrames(s) == Ceil(s.config.ticks * s.config.fps, TicksPerSecond)

\* totalChunks with Math.floor in place of Math.ceil
totalChunksFloor(s) == getTotalFrames(s) \div s.config.chunkFrames

\* start(): Math.ceil(totalFrames / chunkFrames)
totalChunks(s) == Ceil(getTotalFrames(s), s.config.chunkFrames)

startFrame(s) == s.chunkIndex * s.config.chunkFrames

frameCount(s) == Min(s.config.chunkFrames, getTotalFrames(s) - startFrame(s))

\* calculatePercent giving the encoding phase 40 points instead of 35
calculatePercentWide(currentFrame, total, phase) ==
  IF phase = "rendering"
  THEN Round(currentFrame * 60, total)
  ELSE Round(60 * total + currentFrame * 40, total)

\* ExportController.calculatePercent
calculatePercent(currentFrame, total, phase) ==
  IF phase = "rendering"
  THEN Round(currentFrame * 60, total)
  ELSE Round(60 * total + currentFrame * 35, total)

\* the phases after which a run emits no further event
TerminalPhases == {"done", "error", "cancelled"}

HasPhase(evs, phase) == \E n \in 1..Len(evs) : evs[n].phase = phase

HasTerminal(evs) == \E n \in 1..Len(evs) : evs[n].phase \in TerminalPhases

\* ExportController.updateProgress
updateProgress(s, progress) == [s EXCEPT !.events = Append(@, progress)]

\* the progress record start() builds for phase and frame position
progressAt(s, phase, currentFrame, currentChunk) ==
  [phase |-> phase, currentFrame |-> currentFrame,
   totalFrames |-> getTotalFrames(s), currentChunk |-> currentChunk,
   totalChunks |-> totalChunks(s),
   percent |-> calculatePercent(currentFrame, getTotalFrames(s), phase)]

\* FFmpegBridge.sendMessage once the worker is ready: the request is posted
sendMessage(s, type, cmd, path, out, payload) ==
  [s EXCEPT !.messageId = @ + 1,
            !.deleteLog = IF type \in {"deleteFile", "deleteDir"}
                          THEN Append(@, path) ELSE @,
            !.request = [id |-> s.messageId + 1, type |-> type, cmd |-> cmd,
                         path |-> path, out |-> out, data |-> payload]]

\* ------------------------------------------------------------ the engine
\* what the image2 demuxer reads for the pattern <dir>/frame_%04d.png:
\* the files numbered n, n+1, ... up to the first missing number
RECURSIVE ImageSequence(_, _, _)
ImageSequence(files, dir, n) ==
  IF framePath(dir, n) \in DOMAIN files
  THEN files[framePath(dir, n)] \o ImageSequence(files, dir, n + 1)
  ELSE <<>>

\* what the concat demuxer reads: the listed files, in list order
RECURSIVE ConcatOf(_, _, _)
ConcatOf(files, list, n) ==
  IF n > Len(list) THEN <<>>
  ELSE files[ListedPath(list[n])] \o ConcatOf(files, list, n + 1)

Remove(files, path) == [p \in DOMAIN files \ {path} |-> files[p]]

Put(files, path, content) ==
  [p \in DOMAIN files \cup {path} |-> IF p = path THEN content ELSE files[p]]

IsPrefix(a, b) == Len(a) <= Len(b) /\ SubSeq(b, 1, Len(a)) = a

DirEmpty(files, dir) == \A p \in DOMAIN files : p = dir \/ ~IsPrefix(dir, p)

\* The worker's onmessage for the request in flight.  ok: the engine call
\* does not fail for a reason of its own; partial: a failing write or exec
\* leaves a truncated target behind.  A delete fails exactly when its target
\* is missing (or the directory is not empty).  Result: the response and the
\* state with the request consumed.
onmessage(s, ok, partial) ==
  LET r == s.request
      loaded == s.isLoaded
      done(success, files, payload) ==
        [success |-> success, data |-> payload,
         s |-> [s EXCEPT !.fs = files, !.request = NoRequest]]
  IN
  CASE r.type = "load" ->
         [success |-> ok \/ loaded, data |-> <<>>,
          s |-> [s EXCEPT !.isLoaded = ok \/ loaded, !.request = NoRequest]]
    [] ~loaded -> done(FALSE, s.fs, <<>>)
    [] r.type = "createDir" ->
         IF ok /\ r.path \notin DOMAIN s.fs
         THEN done(TRUE, Put(s.fs, r.path, <<>>), <<>>)
         ELSE done(FALSE, s.fs, <<>>)
    [] r.type = "writeFile" ->
         IF ok THEN done(TRUE, Put(s.fs, r.path, r.data), <<>>)
         ELSE IF partial THEN done(FALSE, Put(s.fs, r.path, <<>>), <<>>)
         ELSE done(FALSE, s.fs, <<>>)
    [] r.type = "exec" /\ r.cmd = "encode" ->
         IF ok /\ ImageSequence(s.fs, r.path, 0) # <<>>
         THEN done(TRUE, Put(s.fs, r.out, ImageSequence(s.fs, r.path, 0)), <<>>)
         ELSE IF partial THEN done(FALSE, Put(s.fs, r.out, <<>>), <<>>)
         ELSE done(FALSE, s.fs, <<>>)
    [] r.type = "exec" /\ r.cmd = "concat" ->
         IF /\ ok
            /\ r.path \in DOMAIN s.fs
            /\ \A n \in 1..Len(s.fs[r.path]) :
                 ListedPath(s.fs[r.path][n]) \in DOMAIN s.fs
         THEN done(TRUE, Put(s.fs, r.out, ConcatOf(s.fs, s.fs[r.path], 1)), <<>>)
         ELSE IF partial THEN done(FALSE, Put(s.fs, r.out, <<>>), <<>>)
         ELSE done(FALSE, s.fs, <<>>)
    [] r.type = "readFile" ->
         IF ok /\ r.path \in DOMAIN s.fs
         THEN done(TRUE, s.fs, s.fs[r.path])
         ELSE done(FALSE, s.fs, <<>>)
    [] r.type = "deleteFile" ->
         IF r.path \in DOMAIN s.fs
         THEN done(TRUE, Remove(s.fs, r.path), <<>>)
         ELSE done(FALSE, s.fs, <<>>)
    [] r.type = "deleteDir" ->
         IF r.path \in DOMAIN s.fs /\ DirEmpty(s.fs, r.path)
         THEN done(TRUE, Remove(s.fs, r.path), <<>>)
         ELSE done(FALSE, s.fs, <<>>)
    [] OTHER -> done(FALSE, s.fs, <<>>)

\* ------------------------------------------- ExportController, synchronous
\* FFmpegBridge.terminate
terminate(s) ==
  IF s.worker \in {"starting", "ready"}
  THEN [s EXCEPT !.worker = "terminated", !.isReady = FALSE,
                 !.terminateCalls = @ + 1]
  ELSE s

\* FrameRenderer.dispose
dispose(s) ==
  [s EXCEPT !.rendererCancelled = TRUE, !.disposeCalls = @ + 1]

\* the finally block without the reset of isRunning
cleanupTailKeepRunning(s) ==
  LET s1 == IF s.ffmpegBridge THEN terminate(s) ELSE s
      s2 == IF s1.frameRenderer THEN dispose(s1) ELSE s1
  IN [s2 EXCEPT !.frameRenderer = FALSE, !.ffmpegBridge = FALSE,
                !.chunkedEncoder = FALSE,
                !.frames = <<>>, !.error = "", !.data = <<>>, !.ret = "",
                !.result = [s.outcome EXCEPT !.returned = TRUE],
                !.pc = "idle"]

\* cleanup terminating the bridge without dropping the reference to it
cleanupTailKeepBridge(s) ==
  LET s1 == IF s.ffmpegBridge THEN terminate(s) ELSE s
      s2 == IF s1.frameRenderer THEN dispose(s1) ELSE s1
  IN [s2 EXCEPT !.frameRenderer = FALSE,
                !.chunkedEncoder = FALSE, !.isRunning = FALSE,
                !.frames = <<>>, !.error = "", !.data = <<>>, !.ret = "",
                !.result = [s.outcome EXCEPT !.returned = TRUE],
                !.pc = "idle"]

\* ExportController.cleanup after the encoder's cleanup, then the end of the
\* finally block: start() returns the pending value
cleanupTail(s) ==
  LET s1 == IF s.ffmpegBridge THEN terminate(s) ELSE s
      s2 == IF s1.frameRenderer THEN dispose(s1) ELSE s1
  IN [s2 EXCEPT !.frameRenderer = FALSE, !.ffmpegBridge = FALSE,
                !.chunkedEncoder = FALSE, !.isRunning = FALSE,
                !.frames = <<>>, !.error = "", !.data = <<>>, !.ret = "",
                !.result = [s.outcome EXCEPT !.returned = TRUE],
                !.pc = "idle"]

\* ChunkedEncoder.cleanup up to its first await; to: who awaits it
encoderCleanup(s, to) ==
  IF Len(s.partPaths) > 0
  THEN [sendMessage(s, "deleteFile", "", s.partPaths[1], <<>>, <<>>)
          EXCEPT !.pc = "cleanupPart", !.j = 0, !.ret = to]
  ELSE [sendMessage(s, "deleteFile", "", listPath, <<>>, <<>>)
          EXCEPT !.pc = "cleanupFile", !.j = 0, !.ret = to]

\* ExportController.cleanup up to its first await
cleanup(s) ==
  LET s1 == [s EXCEPT !.cleanups = @ + 1]
  IN IF s1.chunkedEncoder THEN encoderCleanup(s1, "controller") ELSE cleanupTail(s1)

\* catchBlock rethrowing the error after the progress event instead of
\* returning a failure value
catchBlockRethrow(s, message) ==
  LET s1 == updateProgress(s,
              [INITIAL_PROGRESS EXCEPT
                 !.phase = IF s.cancelled THEN "cancelled" ELSE "error"])
  IN cleanup([s1 EXCEPT !.frames = <<>>,
                        !.outcome = [NoResult EXCEPT !.rejected = TRUE,
                                                     !.error = message]])

\* start(): the catch block, then the finally block
catchBlock(s, message) ==
  LET s1 == updateProgress(s,
              [INITIAL_PROGRESS EXCEPT
                 !.phase = IF s.cancelled THEN "cancelled" ELSE "error"])
  IN cleanup([s1 EXCEPT !.frames = <<>>,
                        !.outcome = [NoResult EXCEPT !.error = message]])

\* finish returning from outside the try/finally: no cleanup
finishNoCleanup(s) ==
  LET s1 == updateProgress(s,
              [phase |-> "done", currentFrame |-> getTotalFrames(s),
               totalFrames |-> getTotalFrames(s), currentChunk |-> totalChunks(s),
               totalChunks |-> totalChunks(s), percent |-> 100])
  IN [s1 EXCEPT !.isRunning = FALSE, !.pc = "idle",
                !.result = [NoResult EXCEPT !.returned = TRUE, !.success = TRUE,
                                            !.blob = s.data,
                                            !.filename = "canvas_export.mov"]]

\* start(): mergeChunks has returned outputData
finish(s) ==
  LET s1 == updateProgress(s,
              [phase |-> "done", currentFrame |-> getTotalFrames(s),
               totalFrames |-> getTotalFrames(s), currentChunk |-> totalChunks(s),
               totalChunks |-> totalChunks(s), percent |-> 100])
  IN cleanup([s1 EXCEPT !.outcome = [NoResult EXCEPT !.success = TRUE,
                                                    !.blob = s.data,
                                                    !.filename = "canvas_export.mov"]])

\* mergeChunks without the single-part branch: one part is concatenated too
mergeChunksAlwaysConcat(s) ==
  IF s.encoderCancelled THEN catchBlock(s, ErrEncodeCancelled)
  ELSE IF Len(s.partPaths) = 0 THEN catchBlock(s, ErrNoParts)
  ELSE [sendMessage(s, "writeFile", "", listPath, <<>>, generateConcatList(s.partPaths))
          EXCEPT !.pc = "mergeWriteList"]

\* ChunkedEncoder.mergeChunks up to its first await
mergeChunks(s) ==
  IF s.encoderCancelled THEN catchBlock(s, ErrEncodeCancelled)
  ELSE IF Len(s.partPaths) = 0 THEN catchBlock(s, ErrNoParts)
  ELSE IF Len(s.partPaths) = 1
  THEN [sendMessage(s, "readFile", "", s.partPaths[1], <<>>, <<>>)
          EXCEPT !.pc = "mergeReadSingle"]
  ELSE [sendMessage(s, "writeFile", "", listPath, <<>>, generateConcatList(s.partPaths))
          EXCEPT !.pc = "mergeWriteList"]

\* afterChunks without the 'merging' progress event
afterChunksNoMerging(s) ==
  IF s.cancelled THEN catchBlock(s, ErrExportCancelled)
  ELSE mergeChunks([s EXCEPT !.frames = <<>>])

\* start(): after the chunk loop
afterChunks(s) ==
  IF s.cancelled THEN catchBlock(s, ErrExportCancelled)
  ELSE mergeChunks(updateProgress([s EXCEPT !.frames = <<>>],
         [phase |-> "merging", currentFrame |-> getTotalFrames(s),
          totalFrames |-> getTotalFrames(s), currentChunk |-> totalChunks(s),
          totalChunks |-> totalChunks(s), percent |-> 95]))

\* the callback's event reporting the chunk's first frame as the position
encodeProgressChunkStart(s) ==
  updateProgress(s, progressAt(s, "encoding", startFrame(s), s.chunkIndex))

\* the progress event of encodeChunk's onProgress callback in start()
encodeProgress(s) ==
  updateProgress(s, progressAt(s, "encoding", startFrame(s) + frameCount(s), s.chunkIndex))

\* encodeChunk rethrowing at once, without cleanupChunk
cleanupChunkSkipped(s, message) == catchBlock(s, message)

\* ChunkedEncoder.cleanupChunk up to its first await; message: the error
\* encodeChunk rethrows afterwards
cleanupChunk(s, message) ==
  LET dir == getChunkDirName(s.chunkIndex)
      s1 == [s EXCEPT !.error = message, !.j = 0]
  IN IF Len(s.frames) > 0
     THEN [sendMessage(s1, "deleteFile", "", framePath(dir, 0), <<>>, <<>>)
             EXCEPT !.pc = "cleanupChunkFrame"]
     ELSE [sendMessage(s1, "deleteDir", "", dir, <<>>, <<>>)
             EXCEPT !.pc = "cleanupChunkDir"]

\* the write loop of encodeChunk without its cancellation check
writeFramesUnchecked(s, n) ==
  LET dir == getChunkDirName(s.chunkIndex)
  IN IF n < Len(s.frames)
     THEN [sendMessage(s, "writeFile", "", framePath(dir, n), <<>>, s.frames[n + 1])
             EXCEPT !.pc = "writeFrame", !.j = n]
     ELSE LET s1 == encodeProgress(s)
              s2 == sendMessage(s1, "exec", "encode", dir, getPartFilename(s.chunkIndex), <<>>)
          IN [s2 EXCEPT !.pc = "execEncode",
                        !.execLog = Append(@, [cmd |-> "encode", chunk |-> s.chunkIndex,
                                               list |-> <<>>])]

\* the write loop naming each file by the frame's global index
writeFramesGlobalNumber(s, n) ==
  LET dir == getChunkDirName(s.chunkIndex)
  IN IF n < Len(s.frames)
     THEN IF s.encoderCancelled THEN cleanupChunk(s, ErrEncodeCancelled)
          ELSE [sendMessage(s, "writeFile", "", framePath(dir, startFrame(s) + n), <<>>,
                            s.frames[n + 1])
                  EXCEPT !.pc = "writeFrame", !.j = n]
     ELSE LET s1 == encodeProgress(s)
              s2 == sendMessage(s1, "exec", "encode", dir, getPartFilename(s.chunkIndex), <<>>)
          IN [s2 EXCEPT !.pc = "execEncode",
                        !.execLog = Append(@, [cmd |-> "encode", chunk |-> s.chunkIndex,
                                               list |-> <<>>])]

\* ChunkedEncoder.encodeChunk: the write loop at index n, up to the next await
writeFrames(s, n) ==
  LET dir == getChunkDirName(s.chunkIndex)
  IN IF n < Len(s.frames)
     THEN IF s.encoderCancelled THEN cleanupChunk(s, ErrEncodeCancelled)
          ELSE [sendMessage(s, "writeFile", "", framePath(dir, n), <<>>, s.frames[n + 1])
                  EXCEPT !.pc = "writeFrame", !.j = n]
     ELSE LET s1 == encodeProgress(s)
              s2 == sendMessage(s1, "exec", "encode", dir, getPartFilename(s.chunkIndex), <<>>)
          IN [s2 EXCEPT !.pc = "execEncode",
                        !.execLog = Append(@, [cmd |-> "encode", chunk |-> s.chunkIndex,
                                               list |-> <<>>])]

\* ChunkedEncoder.encodeChunk up to its first await
encodeChunk(s) ==
  IF s.encoderCancelled THEN catchBlock(s, ErrEncodeCancelled)
  ELSE [sendMessage(s, "createDir", "", getChunkDirName(s.chunkIndex), <<>>, <<>>)
          EXCEPT !.pc = "createDir"]

\* sourceTime with the time of the first frame carried over from run to run
sourceTimeSinceFirstRun(s, frameIndex) ==
  LET a == (frameIndex + s.runs - 1) * s.config.playbackRate.num
      b == s.config.fps * s.config.playbackRate.den
      c == s.env.sourceTicks
      d == TicksPerSecond
  IN [num |-> IF c > 0 THEN (a * d) % (c * b) ELSE a * d, den |-> b * d]

\* sourceTime without the reduction modulo the source's duration
sourceTimeUnreduced(s, frameIndex) ==
  LET a == frameIndex * s.config.playbackRate.num
      b == s.config.fps * s.config.playbackRate.den
      d == TicksPerSecond
  IN [num |-> a * d, den |-> b * d]

\* renderFrame: the time passed to renderAt, in seconds as a fraction.
\* exportTime = frameIndex / fps, rawTime = exportTime * playbackRate,
\* time = rawTime % renderer.duration if renderer.duration > 0, else rawTime;
\* with rawTime = a/b and renderer.duration = c/d the remainder is
\* ((a*d) % (c*b)) / (b*d)
sourceTime(s, frameIndex) ==
  LET a == frameIndex * s.config.playbackRate.num
      b == s.config.fps * s.config.playbackRate.den
      c == s.env.sourceTicks
      d == TicksPerSecond
  IN [num |-> IF c > 0 THEN (a * d) % (c * b) ELSE a * d, den |-> b * d]

\* FrameRenderer.renderFrame up to its await: renderAt is invoked for frame n
renderFrame(s, n) ==
  [s EXCEPT !.pc = "renderAt", !.i = n,
            !.renderLog = Append(@, [chunk |-> s.chunkIndex, frame |-> n,
                                     time |-> sourceTime(s, n)]),
            !.pendingRenders = @ \cup {[run |-> s.runs, frame |-> n]}]

\* renderChunk with a loop that stops one frame early
renderChunkShort(s, n) ==
  IF n + 1 < Min(startFrame(s) + frameCount(s), getTotalFrames(s))
  THEN IF s.rendererCancelled THEN catchBlock(s, ErrRenderCancelled)
       ELSE renderFrame(s, n)
  ELSE IF s.cancelled THEN catchBlock(s, ErrExportCancelled)
       ELSE encodeChunk(updateProgress(s,
              progressAt(s, "encoding", startFrame(s) + frameCount(s), s.chunkIndex)))

\* renderChunk without the cancellation check before each frame
renderChunkUnchecked(s, n) ==
  IF n < Min(startFrame(s) + frameCount(s), getTotalFrames(s))
  THEN renderFrame(s, n)
  ELSE IF s.cancelled THEN catchBlock(s, ErrExportCancelled)
       ELSE encodeChunk(updateProgress(s,
              progressAt(s, "encoding", startFrame(s) + frameCount(s), s.chunkIndex)))

\* FrameRenderer.renderChunk: the frame loop at index n, up to the next
\* await; when the loop is over, start() goes on to the encoding stage
renderChunk(s, n) ==
  IF n < Min(startFrame(s) + frameCount(s), getTotalFrames(s))
  THEN IF s.rendererCancelled THEN catchBlock(s, ErrRenderCancelled)
       ELSE renderFrame(s, n)
  ELSE IF s.cancelled THEN catchBlock(s, ErrExportCancelled)
       ELSE encodeChunk(updateProgress(s,
              progressAt(s, "encoding", startFrame(s) + frameCount(s), s.chunkIndex)))

\* chunkLoop with one frame array shared by all chunks
chunkLoopKeepFrames(s, k) ==
  LET s1 == [s EXCEPT !.chunkIndex = k]
  IN IF k < totalChunks(s)
     THEN IF s.cancelled THEN catchBlock(s1, ErrExportCancelled)
          ELSE renderChunk(updateProgress(s1,
                 progressAt(s1, "rendering", startFrame(s1), k)), startFrame(s1))
     ELSE afterChunks(s1)

\* start(): the chunk loop at index k, up to the next await
chunkLoop(s, k) ==
  LET s1 == [s EXCEPT !.chunkIndex = k, !.frames = <<>>]
  IN IF k < totalChunks(s)
     THEN IF s.cancelled THEN catchBlock(s1, ErrExportCancelled)
          ELSE renderChunk(updateProgress(s1,
                 progressAt(s1, "rendering", startFrame(s1), k)), startFrame(s1))
     ELSE afterChunks(s1)

\* encodeChunk going straight to the directory delete after a successful
\* encode, without deleting the frame files
deleteFramesSkipped(s, n) ==
  [sendMessage(s, "deleteDir", "", getChunkDirName(s.chunkIndex), <<>>, <<>>)
     EXCEPT !.pc = "deleteDir"]

\* ChunkedEncoder.encodeChunk: the frame-delete loop at index n after a
\* successful encode, up to the next await
deleteFrames(s, n) ==
  LET dir == getChunkDirName(s.chunkIndex)
  IN IF n < Len(s.frames)
     THEN [sendMessage(s, "deleteFile", "", framePath(dir, n), <<>>, <<>>)
             EXCEPT !.pc = "deleteFrame", !.j = n]
     ELSE [sendMessage(s, "deleteDir", "", dir, <<>>, <<>>)
             EXCEPT !.pc = "deleteDir"]

\* ChunkedEncoder.cleanup returning without emptying partPaths
cleanupReturnKeepParts(s) ==
  CASE s.ret = "controller" -> cleanupTail(s)
    [] s.ret = "merged" -> finish(s)
    [] OTHER -> catchBlock(s, s.error)

\* ChunkedEncoder.cleanup returns to the one who awaited it
cleanupReturn(s) ==
  LET s1 == [s EXCEPT !.partPaths = <<>>]
  IN CASE s.ret = "controller" -> cleanupTail(s1)
       [] s.ret = "merged" -> finish(s1)
       [] OTHER -> catchBlock(s1, s.error)

\* ===================================================== FFmpegBridge, alone
\* The bridge and its worker with several sendMessage calls outstanding.
\* Request ids are the numbers the code turns into strings; 0 is the id '0'
\* of the terminate message, NoId the missing id of 'ready', 'progress' and
\* 'log' messages, NoType the missing type of a response.
NoId == -1
NoType == "undefined"

\* the worker treats every type but 'load' alike
RequestTypes == {"load", "exec"}

EmptyHandlers == [id \in {} |-> 0]

\* new FFmpegBridge(): createWorker()
NewBridge ==
  [worker |-> TRUE, isReady |-> FALSE, messageId |-> 0,
   messageHandlers |-> EmptyHandlers, readyResolved |-> FALSE,
   progressHandler |-> FALSE, logHandler |-> FALSE]

\* the worker before its script has run
NewWorkerScope ==
  [state |-> "starting", isLoaded |-> FALSE, inbox |-> <<>>, running |-> {},
   loads |-> 0, received |-> <<>>, responses |-> <<>>]

\* no bridge is observed on its own
BridgeAbsent ==
  /\ bridge = [NewBridge EXCEPT !.worker = FALSE]
  /\ sends = <<>>
  /\ workerScope = [NewWorkerScope EXCEPT !.state = "terminated"]
  /\ workerMessages = <<>>

BridgeConstructed ==
  /\ bridge = NewBridge
  /\ sends = <<>>
  /\ workerScope = NewWorkerScope
  /\ workerMessages = <<>>

\* Map.set and Map.delete on messageHandlers; the value is the sendMessage
\* call whose promise the handler settles
SetHandler(handlers, id, call) ==
  [k \in DOMAIN handlers \cup {id} |-> IF k = id THEN call ELSE handlers[k]]

DeleteHandler(handlers, id) == [k \in DOMAIN handlers \ {id} |-> handlers[k]]

\* FFmpegBridge.onProgress / onLog, called by the owner of the bridge before
\* its first request
OnProgress ==
  /\ ~bridge.progressHandler /\ sends = <<>>
  /\ bridge' = [bridge EXCEPT !.progressHandler = TRUE]
  /\ UNCHANGED <<controllerVars, cacheVars, sends, workerScope, workerMessages>>

OnLog ==
  /\ ~bridge.logHandler /\ sends = <<>>
  /\ bridge' = [bridge EXCEPT !.logHandler = TRUE]
  /\ UNCHANGED <<controllerVars, cacheVars, sends, workerScope, workerMessages>>

\* sendMessage up to 'await this.waitReady()': it throws without a worker;
\* waitReady returns at once when isReady, else it awaits readyPromise
sendMessageCalled(b, type) ==
  IF ~b.worker
  THEN [type |-> type, status |-> "rejected", id |-> NoId, awaits |-> "",
        settled |-> 0, by |-> NoId]
  ELSE [type |-> type, status |-> "waitReady", id |-> NoId,
        awaits |-> IF b.isReady THEN "tick" ELSE "readyPromise",
        settled |-> 0, by |-> NoId]

SendMessage ==
  /\ Len(sends) < MaxSends
  /\ \E type \in RequestTypes : sends' = Append(sends, sendMessageCalled(bridge, type))
  /\ UNCHANGED <<controllerVars, cacheVars, bridge, workerScope, workerMessages>>

\* sendMessage after the await: the next id is taken and the handler is set
sendMessageResumed(b, call) ==
  [b EXCEPT !.messageId = @ + 1,
            !.messageHandlers = SetHandler(@, b.messageId + 1, call)]

\* sendMessage goes on after waitReady: 'this.worker?.postMessage(request)'
\* posts nothing when terminate() has run in between
SendResumes ==
  \E call \in 1..Len(sends) :
    /\ sends[call].status = "waitReady"
    /\ sends[call].awaits = "tick" \/ bridge.readyResolved
    /\ bridge' = sendMessageResumed(bridge, call)
    /\ sends' = [sends EXCEPT ![call].status = "sent", ![call].id = bridge.messageId + 1]
    /\ workerScope' =
         IF bridge.worker /\ workerScope.state # "terminated"
         THEN [workerScope EXCEPT
                 !.inbox = Append(@, [id |-> bridge.messageId + 1,
                                      type |-> sends[call].type])]
         ELSE workerScope
    /\ UNCHANGED <<controllerVars, cacheVars, workerMessages>>

\* the worker's script has run to its end: self.postMessage({type: 'ready'})
WorkerStarts ==
  /\ workerScope.state = "starting"
  /\ workerScope' = [workerScope EXCEPT !.state = "running"]
  /\ workerMessages' = Append(workerMessages, [type |-> "ready", id |-> NoId, success |-> FALSE])
  /\ UNCHANGED <<controllerVars, cacheVars, bridge, sends>>

Response(id, success) == [type |-> NoType, id |-> id, success |-> success]

\* self.onmessage up to the engine call it awaits.  loadFFmpeg returns at
\* once when isLoaded, else it creates an FFmpeg and loads it; the other
\* operations throw before a successful load.  ws: the worker; r: the request
onmessageReceived(ws, r) ==
  LET w == [ws EXCEPT !.received = Append(@, [id |-> r.id, type |-> r.type,
                                              loaded |-> ws.isLoaded])]
  IN IF r.type = "load"
     THEN IF ws.isLoaded
          THEN [w EXCEPT !.responses = Append(@, Response(r.id, TRUE))]
          ELSE [w EXCEPT !.running = @ \cup {r}, !.loads = @ + 1]
     ELSE IF ~ws.isLoaded
          THEN [w EXCEPT !.responses = Append(@, Response(r.id, FALSE))]
          ELSE [w EXCEPT !.running = @ \cup {r}]

\* the responses ws has posted beyond those of ws0
Posted(ws0, ws) == SubSeq(ws.responses, Len(ws0.responses) + 1, Len(ws.responses))

WorkerReceives ==
  /\ workerScope.state = "running"
  /\ workerScope.inbox # <<>>
  /\ LET w == onmessageReceived([workerScope EXCEPT !.inbox = Tail(@)],
                                Head(workerScope.inbox))
     IN /\ workerScope' = w
        /\ workerMessages' = workerMessages \o Posted(workerScope, w)
  /\ UNCHANGED <<controllerVars, cacheVars, bridge, sends>>

\* self.onmessage answering twice when the engine call fails
onmessageSettledTwice(ws, r, ok) ==
  [ws EXCEPT !.running = @ \ {r},
             !.isLoaded = IF r.type = "load" /\ ok THEN TRUE ELSE @,
             !.responses = IF ok THEN Append(@, Response(r.id, TRUE))
                           ELSE @ \o <<Response(r.id, TRUE), Response(r.id, FALSE)>>]

\* self.onmessage after the engine call has settled: sendResponse, from the
\* try block or from the catch block
onmessageSettled(ws, r, ok) ==
  [ws EXCEPT !.running = @ \ {r},
             !.isLoaded = IF r.type = "load" /\ ok THEN TRUE ELSE @,
             !.responses = Append(@, Response(r.id, ok))]

\* the messages the engine posts while it works on a call: nothing, a
\* progress report or a log line
Notes ==
  {<<>>, <<[type |-> "progress", id |-> NoId, success |-> FALSE]>>,
   <<[type |-> "log", id |-> NoId, success |-> FALSE]>>}

WorkerCompletes ==
  /\ workerScope.state = "running"
  /\ \E r \in workerScope.running, ok \in BOOLEAN, note \in Notes :
       LET w == onmessageSettled(workerScope, r, ok)
       IN /\ workerScope' = w
          /\ workerMessages' = workerMessages \o note \o Posted(workerScope, w)
  /\ UNCHANGED <<controllerVars, cacheVars, bridge, sends>>

\* the sendMessage promise of a call is settled by the response m
settleCall(snd, call, m) ==
  [snd EXCEPT ![call].status = IF @ = "sent"
                               THEN (IF m.success THEN "resolved" ELSE "rejected")
                               ELSE @,
              ![call].settled = @ + 1,
              ![call].by = IF snd[call].status = "sent" THEN m.id ELSE @]

\* handleWorkerMessage leaving the handler in the map after calling it
handleWorkerMessageKeepHandler(b, snd, m) ==
  IF m.type = "ready"
  THEN [bridge |-> [b EXCEPT !.isReady = TRUE, !.readyResolved = TRUE], sends |-> snd]
  ELSE IF m.type = "progress" /\ b.progressHandler THEN [bridge |-> b, sends |-> snd]
  ELSE IF m.type = "log" /\ b.logHandler THEN [bridge |-> b, sends |-> snd]
  ELSE IF m.id \in DOMAIN b.messageHandlers
  THEN [bridge |-> b, sends |-> settleCall(snd, b.messageHandlers[m.id], m)]
  ELSE [bridge |-> b, sends |-> snd]

\* FFmpegBridge.handleWorkerMessage
handleWorkerMessage(b, snd, m) ==
  IF m.type = "ready"
  THEN [bridge |-> [b EXCEPT !.isReady = TRUE, !.readyResolved = TRUE], sends |-> snd]
  ELSE IF m.type = "progress" /\ b.progressHandler THEN [bridge |-> b, sends |-> snd]
  ELSE IF m.type = "log" /\ b.logHandler THEN [bridge |-> b, sends |-> snd]
  ELSE IF m.id \in DOMAIN b.messageHandlers
  THEN [bridge |-> [b EXCEPT !.messageHandlers = DeleteHandler(@, m.id)],
        sends |-> settleCall(snd, b.messageHandlers[m.id], m)]
  ELSE [bridge |-> b, sends |-> snd]

\* worker.onmessage: the oldest message of the worker is dispatched
WorkerMessageArrives ==
  /\ workerMessages # <<>>
  /\ LET t == handleWorkerMessage(bridge, sends, Head(workerMessages))
     IN bridge' = t.bridge /\ sends' = t.sends
  /\ workerMessages' = Tail(workerMessages)
  /\ UNCHANGED <<controllerVars, cacheVars, workerScope>>

\* FFmpegBridge.terminate, the bridge's side
terminateBridge(b) ==
  IF b.worker
  THEN [b EXCEPT !.worker = FALSE, !.isReady = FALSE, !.messageHandlers = EmptyHandlers]
  ELSE b

\* the worker's side of terminate(): the terminate message (id '0') is
\* posted and the worker is killed.  handled: the worker, with nothing else
\* queued, got to run onmessage for that message first (terminate() of the
\* worker script, then sendResponse)
workerTerminated(ws, handled) ==
  IF handled
  THEN [ws EXCEPT !.state = "terminated", !.inbox = <<>>, !.isLoaded = FALSE,
                  !.received = Append(@, [id |-> 0, type |-> "terminate",
                                          loaded |-> ws.isLoaded]),
                  !.responses = Append(@, Response(0, TRUE))]
  ELSE [ws EXCEPT !.state = "terminated", !.inbox = <<>>]

\* terminate().  Messages the worker had posted before it was killed may
\* still be dispatched (delivered) or are discarded with it
Terminate ==
  /\ bridge.worker
  /\ bridge' = terminateBridge(bridge)
  /\ \E handled, delivered \in BOOLEAN :
       /\ handled => workerScope.state = "running" /\ workerScope.inbox = <<>>
       /\ LET w == workerTerminated(workerScope, handled)
          IN /\ workerScope' = w
             /\ workerMessages' = IF delivered
                                  THEN workerMessages \o Posted(workerScope, w)
                                  ELSE <<>>
  /\ UNCHANGED <<controllerVars, cacheVars, sends>>

NextBridge ==
  \/ OnProgress \/ OnLog \/ SendMessage \/ SendResumes
  \/ WorkerStarts \/ WorkerReceives \/ WorkerCompletes
  \/ WorkerMessageArrives \/ Terminate

\* ============================================================== FrameCache
\* createFrameCache of the editor's preview.  A bitmap is named by the number
\* of the onRenderFrame invocation that produced it.
NoFrames == [f \in {} |-> 0]

MapPut(map, key, value) ==
  [k \in DOMAIN map \cup {key} |-> IF k = key THEN value ELSE map[k]]

MapDelete(map, key) == [k \in DOMAIN map \ {key} |-> map[k]]

\* array.indexOf(x) !== -1 ? array.splice(idx, 1) : array
RECURSIVE Without(_, _)
Without(seq, x) ==
  IF seq = <<>> THEN <<>>
  ELSE IF Head(seq) = x THEN Tail(seq)
  ELSE <<Head(seq)>> \o Without(Tail(seq), x)

\* createFrameCache(options): the closure's variables
NewFrameCache(maxFrames) ==
  [maxFrames |-> maxFrames, cache |-> NoFrames, lruOrder |-> <<>>,
   pendingRenders |-> NoFrames, prefetchQueue |-> <<>>,
   isPrefetching |-> FALSE, disposed |-> FALSE]

\* the cache with what surrounds it: the onRenderFrame invocations in flight
\* (renders), the getOrRender calls (calls), the prefetch loop (prefetcher)
\* and what is remembered of the past (history: the cached frames from the
\* least to the most recently inserted or accessed one, the renders that were
\* in flight at a clear(), the number of renders started)
CacheCur ==
  [fc |-> frameCache, renders |-> renders, calls |-> cacheCalls,
   prefetcher |-> prefetcher, history |-> cacheHistory]

CacheCommit(t) ==
  /\ frameCache' = t.fc /\ renders' = t.renders /\ cacheCalls' = t.calls
  /\ prefetcher' = t.prefetcher /\ cacheHistory' = t.history
  /\ UNCHANGED <<controllerVars, bridgeVars>>

NewPrefetcher == [pc |-> "idle", render |-> 0, scheduled |-> 0]

NewHistory == [recency |-> <<>>, stale |-> {}, started |-> 0]

CacheAbsent ==
  /\ frameCache = NewFrameCache(0) /\ renders = {} /\ cacheCalls = <<>>
  /\ prefetcher = NewPrefetcher /\ cacheHistory = NewHistory

\* touchLru
touchLru(c, frameIndex) ==
  [c EXCEPT !.lruOrder = Append(Without(@, frameIndex), frameIndex)]

\* evictIfNeeded
RECURSIVE evictIfNeeded(_)
evictIfNeeded(c) ==
  IF Cardinality(DOMAIN c.cache) > c.maxFrames /\ Len(c.lruOrder) > 0
  THEN evictIfNeeded([c EXCEPT !.lruOrder = Tail(@),
                               !.cache = MapDelete(@, Head(c.lruOrder))])
  ELSE c

\* the frame was inserted or accessed: it is the most recent one now, and
\* only the frames still cached are remembered
Used(t, frameIndex) ==
  [t EXCEPT !.history.recency =
              SelectSeq(Append(Without(@, frameIndex), frameIndex),
                        LAMBDA f : f \in DOMAIN t.fc.cache)]

\* get without touchLru
getNoTouch(t, frameIndex) == t

\* FrameCache.get
get(t, frameIndex) ==
  IF frameIndex \in DOMAIN t.fc.cache
  THEN [t EXCEPT !.fc = touchLru(@, frameIndex)]
  ELSE t

Get ==
  \E f \in 0..(CacheTotalFrames - 1) :
    /\ f \in DOMAIN frameCache.cache
    /\ CacheCommit(Used(get(CacheCur, f), f))

\* renderAndCache up to its return: the render the returned promise follows
\* (0: the promise is rejected, the cache is disposed)
renderAndCache(t, frameIndex) ==
  IF t.fc.disposed THEN [state |-> t, render |-> 0]
  ELSE IF frameIndex \in DOMAIN t.fc.pendingRenders
  THEN [state |-> t, render |-> t.fc.pendingRenders[frameIndex]]
  ELSE LET id == t.history.started + 1
       IN [state |-> [t EXCEPT !.renders = @ \cup {[id |-> id, frame |-> frameIndex]},
                               !.fc.pendingRenders = MapPut(@, frameIndex, id),
                               !.history.started = id],
           render |-> id]

\* FrameCache.getOrRender
getOrRender(t, frameIndex) ==
  IF frameIndex \in DOMAIN t.fc.cache
  THEN LET u == Used([t EXCEPT !.fc = touchLru(@, frameIndex)], frameIndex)
       IN [u EXCEPT !.calls = Append(@, [frame |-> frameIndex, render |-> 0,
                                         status |-> "resolved",
                                         bitmap |-> t.fc.cache[frameIndex]])]
  ELSE LET r == renderAndCache(t, frameIndex)
       IN [r.state EXCEPT
             !.calls = Append(@, [frame |-> frameIndex, render |-> r.render,
                                  status |-> IF r.render = 0 THEN "rejected" ELSE "pending",
                                  bitmap |-> 0])]

GetOrRender ==
  /\ Len(cacheCalls) < MaxCalls
  /\ \E f \in 0..(CacheTotalFrames - 1) :
       /\ f \in DOMAIN frameCache.cache \/ frameCache.disposed
          \/ f \in DOMAIN frameCache.pendingRenders
          \/ cacheHistory.started < MaxRenders
       /\ CacheCommit(getOrRender(CacheCur, f))

\* the frames prefetch puts in the queue
RECURSIVE framesToPrefetch(_, _, _, _)
framesToPrefetch(c, currentFrame, n, ahead) ==
  IF n > ahead THEN <<>>
  ELSE LET nextFrame == currentFrame + n
       IN (IF /\ nextFrame < CacheTotalFrames
              /\ nextFrame \notin DOMAIN c.cache
              /\ nextFrame \notin DOMAIN c.pendingRenders
           THEN <<nextFrame>> ELSE <<>>)
          \o framesToPrefetch(c, currentFrame, n + 1, ahead)

\* FrameCache.prefetch: the queue is replaced and processPrefetchQueue is
\* scheduled
prefetch(t, currentFrame, ahead) ==
  IF t.fc.disposed THEN t
  ELSE [t EXCEPT !.fc.prefetchQueue = framesToPrefetch(t.fc, currentFrame, 1, ahead),
                 !.prefetcher.scheduled = @ + 1]

\* prefetch is called once per displayed frame: the callback of the call
\* before has fired by then (the loop it started may still be running)
Prefetch ==
  /\ prefetcher.scheduled = 0
  /\ \E currentFrame \in 0..(CacheTotalFrames - 1), ahead \in 1..MaxAhead :
       CacheCommit(prefetch(CacheCur, currentFrame, ahead))

\* processPrefetchQueue: the while loop up to its next await or to its end
RECURSIVE prefetchLoop(_)
prefetchLoop(t) ==
  IF Len(t.fc.prefetchQueue) > 0 /\ ~t.fc.disposed
  THEN LET frameIndex == Head(t.fc.prefetchQueue)
           u == [t EXCEPT !.fc.prefetchQueue = Tail(@)]
       IN IF frameIndex \in DOMAIN u.fc.cache \/ frameIndex \in DOMAIN u.fc.pendingRenders
          THEN prefetchLoop(u)
          ELSE LET r == renderAndCache(u, frameIndex)
               IN [r.state EXCEPT !.prefetcher.pc = "render",
                                  !.prefetcher.render = r.render]
  ELSE [t EXCEPT !.fc.isPrefetching = FALSE, !.prefetcher.pc = "idle",
                 !.prefetcher.render = 0]

\* processPrefetchQueue from its entry
processPrefetchQueue(t) ==
  IF t.fc.isPrefetching \/ t.fc.disposed THEN t
  ELSE prefetchLoop([t EXCEPT !.fc.isPrefetching = TRUE])

\* the idle callback (or the timer) set by prefetch fires
PrefetchRuns ==
  /\ prefetcher.scheduled > 0
  /\ \/ cacheHistory.started < MaxRenders
     \/ frameCache.isPrefetching \/ frameCache.disposed
     \/ frameCache.prefetchQueue = <<>>
  /\ CacheCommit(processPrefetchQueue([CacheCur EXCEPT !.prefetcher.scheduled = @ - 1]))

\* the calls that follow render id are settled
settleCalls(calls, id, ok) ==
  [n \in 1..Len(calls) |->
     IF calls[n].status = "pending" /\ calls[n].render = id
     THEN [calls[n] EXCEPT !.status = IF ok THEN "resolved" ELSE "rejected",
                           !.bitmap = IF ok THEN id ELSE 0]
     ELSE calls[n]]

\* onRenderFrame has settled: the then-callback of renderAndCache (or its
\* catch-callback), then the callers that follow the promise
renderSettled(t, r, ok) ==
  LET c == t.fc
      c1 == IF ok /\ ~c.disposed
            THEN evictIfNeeded(touchLru([c EXCEPT !.cache = MapPut(@, r.frame, r.id)],
                                        r.frame))
            ELSE c
      c2 == [c1 EXCEPT !.pendingRenders = MapDelete(@, r.frame)]
      u == [t EXCEPT !.fc = c2, !.renders = @ \ {r},
                     !.calls = settleCalls(@, r.id, ok)]
  IN IF ok /\ ~c.disposed THEN Used(u, r.frame) ELSE u

\* processPrefetchQueue after 'await renderAndCache': on to the timer, or,
\* after a failure, on with the loop
prefetchAfterRender(t, ok) ==
  IF ok THEN [t EXCEPT !.prefetcher.pc = "timeout", !.prefetcher.render = 0]
  ELSE prefetchLoop([t EXCEPT !.prefetcher.render = 0])

RenderSettles ==
  \E r \in renders, ok \in BOOLEAN :
    /\ \/ ok \/ prefetcher.pc # "render" \/ prefetcher.render # r.id
       \/ cacheHistory.started < MaxRenders \/ frameCache.prefetchQueue = <<>>
    /\ LET u == renderSettled(CacheCur, r, ok)
       IN CacheCommit(IF prefetcher.pc = "render" /\ prefetcher.render = r.id
                      THEN prefetchAfterRender(u, ok) ELSE u)

\* processPrefetchQueue after 'await setTimeout(0)'
PrefetchTimeout ==
  /\ prefetcher.pc = "timeout"
  /\ \/ cacheHistory.started < MaxRenders \/ frameCache.prefetchQueue = <<>>
     \/ frameCache.disposed
  /\ CacheCommit(prefetchLoop(CacheCur))

\* FrameCache.clear
clear(t) ==
  [t EXCEPT !.fc.cache = NoFrames, !.fc.lruOrder = <<>>,
            !.fc.prefetchQueue = <<>>, !.fc.pendingRenders = NoFrames,
            !.history.recency = <<>>,
            !.history.stale = @ \cup {r.id : r \in t.renders}]

Clear ==
  /\ clear(CacheCur) # CacheCur
  /\ CacheCommit(clear(CacheCur))

\* FrameCache.dispose
disposeCache(t) == clear([t EXCEPT !.fc.disposed = TRUE])

Dispose ==
  /\ ~frameCache.disposed
  /\ CacheCommit(disposeCache(CacheCur))

NextCache ==
  \/ Get \/ GetOrRender \/ Prefetch \/ PrefetchRuns \/ RenderSettles
  \/ PrefetchTimeout \/ Clear \/ Dispose

\* ------------------------------------------------------------------ Init
\* the controller after construction
ControllerConstructed ==
  /\ isRunning = FALSE /\ cancelled = FALSE
  /\ frameRenderer = FALSE /\ ffmpegBridge = FALSE /\ chunkedEncoder = FALSE
  /\ pc = "idle" /\ chunkIndex = 0 /\ frames = <<>> /\ i = 0 /\ j = 0
  /\ error = "" /\ data = <<>> /\ ret = "" /\ outcome = NoResult
  /\ rendererCancelled = FALSE /\ encoderCancelled = FALSE /\ partPaths = <<>>
  /\ worker = "none" /\ isReady = FALSE /\ messageId = 0 /\ request = NoRequest
  /\ isLoaded = FALSE /\ fs = EmptyFs
  /\ disposeCalls = 0 /\ renderLog = <<>> /\ events = <<>> /\ execLog = <<>>
  /\ cleanups = 0 /\ cancelInfo = NoCancel /\ result = NoResult /\ runs = 0
  /\ deleteLog = <<>> /\ terminateCalls = 0 /\ pendingRenders = {}
  /\ refusals = <<>>

\* what Init, InitSampling and InitFair share
Constructed == ControllerConstructed /\ BridgeAbsent /\ CacheAbsent

\* no playbackRate in the config, a frame source without a duration
Init ==
  /\ config \in [fps : FpsOption, ticks : 1..MaxTicks,
                  chunkFrames : 1..MaxChunkFrames, playbackRate : {DefaultRate}]
  /\ env \in [hasWasm : BOOLEAN, sourceTicks : {0}]
  /\ Constructed

\* a short export, in chunks of one frame and in a single chunk, at every
\* playback rate and with frame sources of every duration
InitSampling ==
  /\ config \in [fps : FpsOption, ticks : {MaxChunkFrames},
                  chunkFrames : {1, MaxChunkFrames}, playbackRate : PlaybackRates]
  /\ env \in [hasWasm : {TRUE}, sourceTicks : 0..MaxSourceTicks]
  /\ Constructed

\* --------------------------------------------------------------- actions
\* start() without the reset of the cancellation flag
startKeepCancelled(s, ctxOk) ==
  LET s0 == [s EXCEPT !.isRunning = TRUE, !.runs = @ + 1,
                      !.events = <<>>, !.execLog = <<>>, !.renderLog = <<>>,
                      !.cleanups = 0, !.disposeCalls = 0, !.cancelInfo = NoCancel,
                      !.deleteLog = <<>>, !.terminateCalls = 0,
                      !.result = NoResult, !.outcome = NoResult,
                      !.chunkIndex = 0, !.i = 0, !.j = 0]
      s1 == updateProgress(s0, [INITIAL_PROGRESS EXCEPT !.phase = "initializing"])
  IN IF ~s.env.hasWasm THEN catchBlock(s1, ErrNoWasm)
     ELSE IF ~ctxOk THEN catchBlock(s1, ErrNoContext)
     ELSE [s1 EXCEPT !.frameRenderer = TRUE, !.rendererCancelled = FALSE,
                     !.ffmpegBridge = TRUE, !.worker = "starting",
                     !.isReady = FALSE, !.messageId = 0, !.request = NoRequest,
                     !.isLoaded = FALSE, !.fs = EmptyFs, !.pc = "waitReady"]

\* start() reusing the disposed renderer of the previous run
startReuseRenderer(s, ctxOk) ==
  LET s0 == [s EXCEPT !.isRunning = TRUE, !.cancelled = FALSE, !.runs = @ + 1,
                      !.events = <<>>, !.execLog = <<>>, !.renderLog = <<>>,
                      !.cleanups = 0, !.disposeCalls = 0, !.cancelInfo = NoCancel,
                      !.deleteLog = <<>>, !.terminateCalls = 0,
                      !.result = NoResult, !.outcome = NoResult,
                      !.chunkIndex = 0, !.i = 0, !.j = 0]
      s1 == updateProgress(s0, [INITIAL_PROGRESS EXCEPT !.phase = "initializing"])
  IN IF ~s.env.hasWasm THEN catchBlock(s1, ErrNoWasm)
     ELSE IF ~ctxOk THEN catchBlock(s1, ErrNoContext)
     ELSE [s1 EXCEPT !.frameRenderer = TRUE,
                     !.ffmpegBridge = TRUE, !.worker = "starting",
                     !.isReady = FALSE, !.messageId = 0, !.request = NoRequest,
                     !.isLoaded = FALSE, !.fs = EmptyFs, !.pc = "waitReady"]

\* start() from its entry to the first await (the worker's readiness)
start(s, ctxOk) ==
  LET s0 == [s EXCEPT !.isRunning = TRUE, !.cancelled = FALSE, !.runs = @ + 1,
                      !.events = <<>>, !.execLog = <<>>, !.renderLog = <<>>,
                      !.cleanups = 0, !.disposeCalls = 0, !.cancelInfo = NoCancel,
                      !.deleteLog = <<>>, !.terminateCalls = 0,
                      !.result = NoResult, !.outcome = NoResult,
                      !.chunkIndex = 0, !.i = 0, !.j = 0]
      s1 == updateProgress(s0, [INITIAL_PROGRESS EXCEPT !.phase = "initializing"])
  IN IF ~s.env.hasWasm THEN catchBlock(s1, ErrNoWasm)
     ELSE IF ~ctxOk THEN catchBlock(s1, ErrNoContext)
     ELSE [s1 EXCEPT !.frameRenderer = TRUE, !.rendererCancelled = FALSE,
                     !.ffmpegBridge = TRUE, !.worker = "starting",
                     !.isReady = FALSE, !.messageId = 0, !.request = NoRequest,
                     !.isLoaded = FALSE, !.fs = EmptyFs, !.pc = "waitReady"]

Start ==
  /\ pc = "idle" /\ ~isRunning /\ runs < MaxRuns
  /\ \E ctxOk \in BOOLEAN : Commit(start(Cur, ctxOk))

\* start() with the reset of the cancellation flag ahead of the guard
startRefusedAfterReset(s) ==
  [s EXCEPT !.cancelled = FALSE,
            !.refusals = Append(@, [NoResult EXCEPT !.returned = TRUE,
                                                   !.error = ErrRunning])]

\* start() stopped by its guard: it returns the failure value at once
startRefused(s) ==
  [s EXCEPT !.refusals = Append(@, [NoResult EXCEPT !.returned = TRUE,
                                                   !.error = ErrRunning])]

StartRefused ==
  /\ isRunning /\ Len(refusals) < MaxRefusals
  /\ Commit(startRefused(Cur))

\* the worker announces readiness; sendMessage posts the load request
WorkerReady ==
  /\ pc = "waitReady"
  /\ Commit([sendMessage([Cur EXCEPT !.isReady = TRUE, !.worker = "ready"],
                         "load", "", <<>>, <<>>, <<>>)
               EXCEPT !.pc = "load"])

\* start() going on to the chunks although loading the engine failed
afterLoadIgnoreFailure(s, success) ==
  IF s.cancelled THEN catchBlock(s, ErrExportCancelled)
  ELSE chunkLoop([s EXCEPT !.chunkedEncoder = TRUE, !.partPaths = <<>>,
                           !.encoderCancelled = FALSE], 0)

\* start() after await ffmpegBridge.load
afterLoad(s, success) ==
  IF ~success THEN catchBlock(s, ErrEngine)
  ELSE IF s.cancelled THEN catchBlock(s, ErrExportCancelled)
  ELSE chunkLoop([s EXCEPT !.chunkedEncoder = TRUE, !.partPaths = <<>>,
                           !.encoderCancelled = FALSE], 0)

LoadSettles ==
  /\ pc = "load"
  /\ \E ok \in BOOLEAN :
       LET r == onmessage(Cur, ok, FALSE) IN Commit(afterLoad(r.s, r.success))

\* the renderAt call of frame n of this run has settled
settle(s, n) ==
  [s EXCEPT !.pendingRenders = @ \ {[run |-> s.runs, frame |-> n]}]

\* renderFrame reporting a lost race as a cancellation
afterRenderAtTimeoutCancels(s, settled) ==
  CASE settled = "resolved" -> [settle(s, s.i) EXCEPT !.pc = "capture"]
    [] settled = "timeout" ->
         catchBlock([s EXCEPT !.cancelled = TRUE], ErrRenderTimeout)
    [] OTHER -> catchBlock(settle(s, s.i), ErrRenderFailed)

\* renderFrame going on to the capture when the timer wins the race
afterRenderAtSkipTimeout(s, settled) ==
  CASE settled = "resolved" -> [settle(s, s.i) EXCEPT !.pc = "capture"]
    [] settled = "timeout" -> [s EXCEPT !.pc = "capture"]
    [] OTHER -> catchBlock(settle(s, s.i), ErrRenderFailed)

\* renderFrame trying a rejected renderAt once more
afterRenderAtRetry(s, settled) ==
  CASE settled = "resolved" -> [settle(s, s.i) EXCEPT !.pc = "capture"]
    [] settled = "timeout" -> catchBlock(s, ErrRenderTimeout)
    [] OTHER -> IF Len(s.renderLog) > 0 /\ s.renderLog[Len(s.renderLog)].frame = s.i
                   /\ \A n \in 1..(Len(s.renderLog) - 1) : s.renderLog[n].frame # s.i
                THEN renderFrame(settle(s, s.i), s.i)
                ELSE catchBlock(settle(s, s.i), ErrRenderFailed)

\* renderFrame after await withTimeout(renderAt): renderAt resolved or
\* rejected, or the timer won the race and renderAt is still running
afterRenderAt(s, settled) ==
  CASE settled = "resolved" -> [settle(s, s.i) EXCEPT !.pc = "capture"]
    [] settled = "timeout" -> catchBlock(s, ErrRenderTimeout)
    [] OTHER -> catchBlock(settle(s, s.i), ErrRenderFailed)

RenderAtSettles ==
  /\ pc = "renderAt"
  /\ \E settled \in {"resolved", "rejected", "timeout"} :
       Commit(afterRenderAt(Cur, settled))

\* a renderAt call that lost the race against its timer settles: withTimeout
\* has settled already, nobody awaits the call
LateRenderSettles ==
  \E r \in pendingRenders :
    /\ ~(pc = "renderAt" /\ r = [run |-> runs, frame |-> i])
    /\ pendingRenders' = pendingRenders \ {r}
    /\ UNCHANGED <<config, env, isRunning, cancelled, frameRenderer,
                   ffmpegBridge, chunkedEncoder, pc, chunkIndex, frames, i, j,
                   error, data, ret, outcome, rendererCancelled,
                   encoderCancelled, partPaths, worker, isReady, messageId,
                   request, isLoaded, fs, disposeCalls, renderLog, events,
                   execLog, cleanups, cancelInfo, result, runs, deleteLog,
                   terminateCalls, refusals, bridgeVars, cacheVars>>

\* renderChunk without the per-frame progress callback
afterCaptureSilent(s, ok) ==
  IF ~ok THEN catchBlock(s, ErrCaptureFailed)
  ELSE [s EXCEPT !.frames = Append(@, <<s.i>>), !.pc = "yield"]

\* renderFrame after canvasToBlob / blobToUint8Array, back in renderChunk up
\* to yieldToMain
afterCapture(s, ok) ==
  IF ~ok THEN catchBlock(s, ErrCaptureFailed)
  ELSE [updateProgress([s EXCEPT !.frames = Append(@, <<s.i>>)],
                       progressAt(s, "rendering", s.i + 1, s.chunkIndex))
          EXCEPT !.pc = "yield"]

CaptureSettles ==
  /\ pc = "capture"
  /\ \E ok \in BOOLEAN : Commit(afterCapture(Cur, ok))

YieldSettles ==
  /\ pc = "yield"
  /\ Commit(renderChunk(Cur, i + 1))

\* encodeChunk after await createDir
afterCreateDir(s, success) ==
  IF success THEN writeFrames(s, 0) ELSE cleanupChunk(s, ErrEngine)

CreateDirSettles ==
  /\ pc = "createDir"
  /\ \E ok \in BOOLEAN :
       LET r == onmessage(Cur, ok, FALSE) IN Commit(afterCreateDir(r.s, r.success))

\* encodeChunk after await writeFile of frame j
afterWriteFrame(s, success) ==
  IF success THEN writeFrames(encodeProgress(s), s.j + 1)
  ELSE cleanupChunk(s, ErrEngine)

WriteFrameSettles ==
  /\ pc = "writeFrame"
  /\ \E ok, partial \in BOOLEAN :
       /\ ok => ~partial
       /\ LET r == onmessage(Cur, ok, partial)
          IN Commit(afterWriteFrame(r.s, r.success))

\* encodeChunk after await exec
afterExecEncode(s, success) ==
  IF success THEN deleteFrames(encodeProgress(encodeProgress(s)), 0)
  ELSE cleanupChunk(s, ErrEngine)

ExecEncodeSettles ==
  /\ pc = "execEncode"
  /\ \E ok, partial \in BOOLEAN :
       /\ ok => ~partial
       /\ LET r == onmessage(Cur, ok, partial)
          IN Commit(afterExecEncode(r.s, r.success))

DeleteFrameSettles ==
  /\ pc = "deleteFrame"
  /\ LET r == onmessage(Cur, TRUE, FALSE) IN Commit(deleteFrames(r.s, j + 1))

\* afterDeleteDir recording the part at the front of partPaths
afterDeleteDirUnshift(s) ==
  chunkLoop([encodeProgress(s) EXCEPT
               !.partPaths = <<getPartFilename(s.chunkIndex)>> \o @],
            s.chunkIndex + 1)

\* encodeChunk after the directory delete: the part is recorded and start()
\* goes to the next chunk
afterDeleteDir(s) ==
  chunkLoop([encodeProgress(s) EXCEPT
               !.partPaths = Append(@, getPartFilename(s.chunkIndex))],
            s.chunkIndex + 1)

DeleteDirSettles ==
  /\ pc = "deleteDir"
  /\ LET r == onmessage(Cur, TRUE, FALSE) IN Commit(afterDeleteDir(r.s))

\* cleanupChunk after the delete of frame j
afterCleanupChunkFrame(s) ==
  LET dir == getChunkDirName(s.chunkIndex)
  IN IF s.j + 1 < Len(s.frames)
     THEN [sendMessage(s, "deleteFile", "", framePath(dir, s.j + 1), <<>>, <<>>)
             EXCEPT !.j = s.j + 1]
     ELSE [sendMessage(s, "deleteDir", "", dir, <<>>, <<>>)
             EXCEPT !.pc = "cleanupChunkDir"]

CleanupChunkFrameSettles ==
  /\ pc = "cleanupChunkFrame"
  /\ LET r == onmessage(Cur, TRUE, FALSE) IN Commit(afterCleanupChunkFrame(r.s))

\* cleanupChunk is over: encodeChunk rethrows into start()'s catch block
CleanupChunkDirSettles ==
  /\ pc = "cleanupChunkDir"
  /\ LET r == onmessage(Cur, TRUE, FALSE) IN Commit(catchBlock(r.s, r.s.error))

\* mergeChunks, single part: after await readFile (outside any try block)
afterMergeReadSingle(s, success, bytes) ==
  IF success THEN encoderCleanup([s EXCEPT !.data = bytes], "merged")
  ELSE catchBlock(s, ErrEngine)

MergeReadSingleSettles ==
  /\ pc = "mergeReadSingle"
  /\ \E ok \in BOOLEAN :
       LET r == onmessage(Cur, ok, FALSE)
       IN Commit(afterMergeReadSingle(r.s, r.success, r.data))

\* mergeChunks: after await writeFile(listPath)
afterMergeWriteList(s, success) ==
  IF success
  THEN [sendMessage(s, "exec", "concat", listPath, outputPath, <<>>)
          EXCEPT !.pc = "execConcat",
                 !.execLog = Append(@, [cmd |-> "concat", chunk |-> 0,
                                        list |-> generateConcatList(s.partPaths)])]
  ELSE encoderCleanup([s EXCEPT !.error = ErrEngine], "mergeFailed")

MergeWriteListSettles ==
  /\ pc = "mergeWriteList"
  /\ \E ok, partial \in BOOLEAN :
       /\ ok => ~partial
       /\ LET r == onmessage(Cur, ok, partial)
          IN Commit(afterMergeWriteList(r.s, r.success))

\* mergeChunks: after await exec(concat)
afterExecConcat(s, success) ==
  IF success
  THEN [sendMessage(s, "readFile", "", outputPath, <<>>, <<>>) EXCEPT !.pc = "mergeRead"]
  ELSE encoderCleanup([s EXCEPT !.error = ErrEngine], "mergeFailed")

ExecConcatSettles ==
  /\ pc = "execConcat"
  /\ \E ok, partial \in BOOLEAN :
       /\ ok => ~partial
       /\ LET r == onmessage(Cur, ok, partial)
          IN Commit(afterExecConcat(r.s, r.success))

\* mergeChunks rethrowing a failed read of the output without cleanup
afterMergeReadNoCleanup(s, success, bytes) ==
  IF success THEN encoderCleanup([s EXCEPT !.data = bytes], "merged")
  ELSE catchBlock(s, ErrEngine)

\* mergeChunks: after await readFile(outputPath)
afterMergeRead(s, success, bytes) ==
  IF success THEN encoderCleanup([s EXCEPT !.data = bytes], "merged")
  ELSE encoderCleanup([s EXCEPT !.error = ErrEngine], "mergeFailed")

MergeReadSettles ==
  /\ pc = "mergeRead"
  /\ \E ok \in BOOLEAN :
       LET r == onmessage(Cur, ok, FALSE)
       IN Commit(afterMergeRead(r.s, r.success, r.data))

\* ChunkedEncoder.cleanup after the delete of part j
afterCleanupPart(s) ==
  IF s.j + 1 < Len(s.partPaths)
  THEN [sendMessage(s, "deleteFile", "", s.partPaths[s.j + 2], <<>>, <<>>)
          EXCEPT !.j = s.j + 1]
  ELSE [sendMessage(s, "deleteFile", "", listPath, <<>>, <<>>)
          EXCEPT !.pc = "cleanupFile", !.j = 0]

CleanupPartSettles ==
  /\ pc = "cleanupPart"
  /\ LET r == onmessage(Cur, TRUE, FALSE) IN Commit(afterCleanupPart(r.s))

\* ChunkedEncoder.cleanup after the delete of filesToDelete[j]
afterCleanupFile(s) ==
  IF s.j = 0
  THEN [sendMessage(s, "deleteFile", "", outputPath, <<>>, <<>>) EXCEPT !.j = 1]
  ELSE cleanupReturn(s)

CleanupFileSettles ==
  /\ pc = "cleanupFile"
  /\ LET r == onmessage(Cur, TRUE, FALSE) IN Commit(afterCleanupFile(r.s))

\* cancel forwarding to the renderer and the encoder without setting the
\* controller's own flag
cancelNoFlag(s) ==
  [s EXCEPT !.rendererCancelled = IF s.frameRenderer THEN TRUE ELSE @,
            !.encoderCancelled = IF s.chunkedEncoder THEN TRUE ELSE @,
            !.cancelInfo = IF s.isRunning /\ ~s.cancelInfo.called
                           THEN [called |-> TRUE, pc |-> s.pc, chunk |-> s.chunkIndex,
                                 execs |-> Len(s.execLog), renders |-> Len(s.renderLog),
                                 merging |-> HasPhase(s.events, "merging"),
                                 terminal |-> HasTerminal(s.events),
                                 messageId |-> s.messageId]
                           ELSE @]

\* the awaits of start(), and "idle" when no start() is in progress
Pcs ==
  {"idle", "waitReady", "load", "renderAt", "capture", "yield", "createDir",
   "writeFrame", "execEncode", "deleteFrame", "deleteDir", "cleanupChunkFrame",
   "cleanupChunkDir", "mergeReadSingle", "mergeWriteList", "execConcat",
   "mergeRead", "cleanupPart", "cleanupFile"}

\* cancel that also shuts the engine down at once
cancelAbort(s) ==
  terminate(
  [s EXCEPT !.cancelled = TRUE,
            !.rendererCancelled = IF s.frameRenderer THEN TRUE ELSE @,
            !.encoderCancelled = IF s.chunkedEncoder THEN TRUE ELSE @,
            !.cancelInfo = IF s.isRunning /\ ~s.cancelInfo.called
                           THEN [called |-> TRUE, pc |-> s.pc, chunk |-> s.chunkIndex,
                                 execs |-> Len(s.execLog), renders |-> Len(s.renderLog),
                                 merging |-> HasPhase(s.events, "merging"),
                                 terminal |-> HasTerminal(s.events),
                                 messageId |-> s.messageId]
                           ELSE @])

\* ExportController.cancel
cancel(s) ==
  [s EXCEPT !.cancelled = TRUE,
            !.rendererCancelled = IF s.frameRenderer THEN TRUE ELSE @,
            !.encoderCancelled = IF s.chunkedEncoder THEN TRUE ELSE @,
            !.cancelInfo = IF s.isRunning /\ ~s.cancelInfo.called
                           THEN [called |-> TRUE, pc |-> s.pc, chunk |-> s.chunkIndex,
                                 execs |-> Len(s.execLog), renders |-> Len(s.renderLog),
                                 merging |-> HasPhase(s.events, "merging"),
                                 terminal |-> HasTerminal(s.events),
                                 messageId |-> s.messageId]
                           ELSE @]

Cancel ==
  /\ pc \in Pcs
  /\ Commit(cancel(Cur))

Next ==
  \/ Start \/ StartRefused \/ WorkerReady \/ LoadSettles
  \/ RenderAtSettles \/ LateRenderSettles \/ CaptureSettles \/ YieldSettles
  \/ CreateDirSettles \/ WriteFrameSettles \/ ExecEncodeSettles
  \/ DeleteFrameSettles \/ DeleteDirSettles
  \/ CleanupChunkFrameSettles \/ CleanupChunkDirSettles
  \/ MergeReadSingleSettles \/ MergeWriteListSettles \/ ExecConcatSettles
  \/ MergeReadSettles \/ CleanupPartSettles \/ CleanupFileSettles
  \/ Cancel

Spec == Init /\ [][Next]_vars

SpecSampling == InitSampling /\ [][Next]_vars

\* start() resumes: the operation it awaits has settled (the worker has
\* announced readiness, the engine has answered the pending request, the
\* renderAt call has resolved, rejected or reached its deadline, the capture
\* or the yield has completed), and start() has run on to its next await,
\* which is another one or follows a new engine request, or to its return
Resumes ==
  /\ pc # "idle"
  /\ pc' \in Pcs
  /\ messageId' \in {messageId, messageId + 1}

\* short exports in chunks of one frame: one chunk or several
InitFair ==
  /\ config \in [fps : FpsOption, ticks : 1..MaxFairTicks,
                  chunkFrames : {1}, playbackRate : {DefaultRate}]
  /\ env \in [hasWasm : BOOLEAN, sourceTicks : {0}]
  /\ Constructed

\* a bridge on its own, next to a controller that is never started
InitBridge ==
  /\ config = [fps |-> 60, ticks |-> 1, chunkFrames |-> 1, playbackRate |-> DefaultRate]
  /\ env = [hasWasm |-> TRUE, sourceTicks |-> 0]
  /\ ControllerConstructed
  /\ BridgeConstructed
  /\ CacheAbsent

SpecBridge == InitBridge /\ [][NextBridge]_vars

\* the worker starts and works off its queue, every engine call settles,
\* every posted message is dispatched and every resolved await goes on
SpecBridgeFair ==
  /\ InitBridge /\ [][NextBridge]_vars
  /\ WF_vars(SendResumes) /\ WF_vars(WorkerStarts) /\ WF_vars(WorkerReceives)
  /\ WF_vars(WorkerCompletes) /\ WF_vars(WorkerMessageArrives)

\* a frame cache on its own, of every capacity up to MaxCacheFrames
InitCache ==
  /\ config = [fps |-> 60, ticks |-> 1, chunkFrames |-> 1, playbackRate |-> DefaultRate]
  /\ env = [hasWasm |-> TRUE, sourceTicks |-> 0]
  /\ ControllerConstructed
  /\ BridgeAbsent
  /\ frameCache \in {NewFrameCache(n) : n \in 1..MaxCacheFrames}
  /\ renders = {} /\ cacheCalls = <<>>
  /\ prefetcher = NewPrefetcher /\ cacheHistory = NewHistory

SpecCache == InitCache /\ [][NextCache]_vars

\* every operation start() awaits settles eventually
SpecFair == InitFair /\ [][Next]_vars /\ WF_<<pc, messageId>>(Resumes)

\* ================================================================ claims
Returned == pc = "idle" /\ result.returned

TotalFrames == Ceil(config.ticks * config.fps, TicksPerSecond)

TotalChunks == Ceil(TotalFrames, config.chunkFrames)

LastPhase == IF events = <<>> THEN "idle" ELSE events[Len(events)].phase

\* the chunk indices of the encode commands sent so far, in order
RECURSIVE EncodedChunks(_)
EncodedChunks(log) ==
  IF log = <<>> THEN <<>>
  ELSE (IF Head(log).cmd = "encode" THEN <<Head(log).chunk>> ELSE <<>>)
         \o EncodedChunks(Tail(log))

ConcatIssued == \E n \in 1..Len(execLog) : execLog[n].cmd = "concat"

RenderPcs == {"renderAt", "capture", "yield"}

EncodePcs == {"createDir", "writeFrame", "execEncode", "deleteFrame", "deleteDir",
              "cleanupChunkFrame", "cleanupChunkDir"}

\* C1: a run that neither fails nor is cancelled encodes the chunks
\* 0 .. totalChunks-1 in ascending order, chunk k rendering exactly the
\* frames k*chunkFrames .. min((k+1)*chunkFrames, totalFrames)-1, so that
\* renderAt is called for the frames 0 .. totalFrames-1 once each in
\* ascending order and the last chunk has totalFrames mod chunkFrames frames
\* (chunkFrames when that is 0).
C1_ChunkCoverage ==
  (Returned /\ result.success) =>
    /\ EncodedChunks(execLog) = [k \in 1..TotalChunks |-> k - 1]
    /\ Len(renderLog) = TotalFrames
    /\ \A n \in 1..Len(renderLog) : renderLog[n].frame = n - 1
    /\ \A k \in 0..(TotalChunks - 1) :
         {renderLog[n].frame : n \in {m \in 1..Len(renderLog) : renderLog[m].chunk = k}}
           = (k * config.chunkFrames) ..
             (Min((k + 1) * config.chunkFrames, TotalFrames) - 1)
    /\ Cardinality({n \in 1..Len(renderLog) : renderLog[n].chunk = TotalChunks - 1})
         = IF TotalFrames % config.chunkFrames = 0
           THEN config.chunkFrames
           ELSE TotalFrames % config.chunkFrames

\* a successful run of several chunks whose last chunk is short
C1_Witness ==
  Returned /\ result.success /\ TotalChunks >= 2
    /\ TotalFrames % config.chunkFrames # 0

\* C2 as stated: cancel() at any point of a run before the merge step has
\* begun makes start() return success:false with a last event 'cancelled',
\* no encode command for a later chunk and no concat command.
C2_CancelBeforeMerge ==
  (Returned /\ cancelInfo.called /\ ~cancelInfo.merging) =>
    /\ ~result.success
    /\ LastPhase = "cancelled"
    /\ ~ConcatIssued
    /\ \A n \in 1..Len(execLog) :
         n > cancelInfo.execs => execLog[n].chunk = cancelInfo.chunk

\* C2 amended: the same, for a cancel() that arrives before the run has
\* emitted its terminal event.
C2_CancelBeforeTerminal ==
  (Returned /\ cancelInfo.called /\ ~cancelInfo.merging /\ ~cancelInfo.terminal) =>
    /\ ~result.success
    /\ LastPhase = "cancelled"
    /\ ~ConcatIssued
    /\ \A n \in 1..Len(execLog) :
         n > cancelInfo.execs => execLog[n].chunk = cancelInfo.chunk

\* a run cancelled while the encode command of its second chunk was running
C2_Witness ==
  Returned /\ cancelInfo.called /\ cancelInfo.pc = "execEncode"
    /\ cancelInfo.chunk = 1 /\ TotalChunks >= 3 /\ LastPhase = "cancelled"

\* C3: the frame array never holds more than chunkFrames frames, and every
\* frame it holds belongs to the chunk in progress (the frames of chunk k are
\* gone when chunk k+1 is rendered).
C3_FrameBound ==
  /\ Len(frames) <= config.chunkFrames
  /\ \A n \in 1..Len(frames) :
       /\ frames[n][1] >= chunkIndex * config.chunkFrames
       /\ frames[n][1] < (chunkIndex + 1) * config.chunkFrames

\* a full frame array of a later chunk is being encoded
C3_Witness ==
  pc = "execEncode" /\ chunkIndex >= 1 /\ Len(frames) = config.chunkFrames
    /\ config.chunkFrames >= 2

\* C4: one chunk is in flight at a time: while chunk k is rendered, the
\* encodeChunk calls of the chunks 0 .. k-1 have returned (their parts are
\* recorded, no engine request is outstanding, none of their frame files or
\* directories is left), and while a chunk is encoded all its frames have
\* been rendered.
C4_OneChunkInFlight ==
  /\ pc \in RenderPcs =>
       /\ partPaths = [k \in 1..chunkIndex |-> getPartFilename(k - 1)]
       /\ request = NoRequest
       /\ \A k \in 0..(chunkIndex - 1) :
            \A p \in DOMAIN fs : ~IsPrefix(getChunkDirName(k), p)
  /\ pc \in EncodePcs =>
       frames = [n \in 1..Min(config.chunkFrames,
                              TotalFrames - chunkIndex * config.chunkFrames)
                   |-> <<chunkIndex * config.chunkFrames + n - 1>>]

\* the second chunk is being rendered after the first one was encoded
C4_Witness == pc = "renderAt" /\ chunkIndex >= 1 /\ Len(execLog) >= 1

\* C5: a concat command names the parts of the chunks 0 .. totalChunks-1 in
\* ascending order, one line per encoded chunk.
C5_ConcatOrder ==
  \A n \in 1..Len(execLog) :
    execLog[n].cmd = "concat" =>
      /\ Len(execLog[n].list) = Len(EncodedChunks(execLog))
      /\ Len(execLog[n].list) = TotalChunks
      /\ \A k \in 1..Len(execLog[n].list) :
           ListedPath(execLog[n].list[k]) = getPartFilename(k - 1)
      /\ pc = "execConcat" => fs[listPath] = execLog[n].list

\* the concat command of a run of three chunks is running
C5_Witness == pc = "execConcat" /\ TotalChunks >= 3

\* C6 as stated: when start() has returned, the engine's storage holds none
\* of the files or directories of the run, the worker is not alive and the
\* frame source has been disposed.
C6_NothingLeaked ==
  Returned =>
    /\ DOMAIN fs = {}
    /\ worker \in {"none", "terminated"}
    /\ disposeCalls >= 1

\* C7: a start() call that passed the guard runs ExportController.cleanup
\* exactly once, after the terminal progress event and before it returns.
C7_CleanupOnce ==
  /\ cleanups <= 1
  /\ cleanups = 1 => LastPhase \in TerminalPhases
  /\ (isRunning /\ LastPhase \in TerminalPhases) => cleanups = 1
  /\ Returned => cleanups = 1

\* a successful run has returned after its one cleanup
C7_Witness == Returned /\ result.success /\ cleanups = 1 /\ TotalChunks >= 2

\* C8 as stated: from one progress event to the next rendering, encoding,
\* merging or done event the percent never decreases.
C8_PercentMonotonic ==
  \A n \in 1..(Len(events) - 1) :
    events[n + 1].phase \in {"rendering", "encoding", "merging", "done"} =>
      events[n].percent <= events[n + 1].percent

\* the automaton of the phase grammar
\*   initializing (rendering+ encoding+)* merging done
\* or a prefix of it followed by one error or cancelled event
PhaseStep(state, phase) ==
  CASE state = "start" /\ phase = "initializing" -> "initializing"
    [] state \in {"initializing", "rendering", "encoding"} /\ phase = "rendering"
         -> "rendering"
    [] state \in {"rendering", "encoding"} /\ phase = "encoding" -> "encoding"
    [] state \in {"initializing", "encoding"} /\ phase = "merging" -> "merging"
    [] state = "merging" /\ phase = "done" -> "terminal"
    [] state \in {"initializing", "rendering", "encoding", "merging"}
         /\ phase \in {"error", "cancelled"} -> "terminal"
    [] OTHER -> "bad"

RECURSIVE PhaseRun(_, _, _)
PhaseRun(evs, n, state) ==
  IF n > Len(evs) THEN state
  ELSE PhaseRun(evs, n + 1, PhaseStep(state, evs[n].phase))

\* C9: the phases of a run's events follow the grammar, exactly one terminal
\* event is emitted, and it is the last event.
C9_PhaseGrammar ==
  /\ PhaseRun(events, 1, "start") # "bad"
  /\ isRunning => PhaseRun(events, 1, "start") # "start"
  /\ Returned => PhaseRun(events, 1, "start") = "terminal"
  /\ Cardinality({n \in 1..Len(events) : events[n].phase \in TerminalPhases}) <= 1

\* a run of two chunks has gone through both groups, merging and done
C9_Witness ==
  Returned /\ LastPhase = "done" /\ TotalChunks >= 2
    /\ Cardinality({n \in 1..Len(events) : events[n].phase = "rendering"}) >= 4

FailureMessages ==
  {ErrNoWasm, ErrNoContext, ErrExportCancelled, ErrRenderCancelled,
   ErrEncodeCancelled, ErrRenderTimeout, ErrRenderFailed, ErrCaptureFailed,
   ErrNoParts, ErrEngine}

\* C10: start() returns a value on every path: success with the merged bytes
\* and a filename exactly when the last phase is 'done', otherwise failure
\* with the message of the error.
C10_StructuredResult ==
  Returned =>
    /\ ~result.rejected
    /\ result.success <=> LastPhase = "done"
    /\ result.success =>
         /\ result.blob = [n \in 1..TotalFrames |-> n - 1]
         /\ result.filename # ""
         /\ result.error = ""
    /\ ~result.success =>
         /\ result.error \in FailureMessages
         /\ result.blob = <<>>
         /\ result.filename = ""
         /\ LastPhase \in {"error", "cancelled"}

\* a render timeout in the second chunk came back as a failure value
C10_Witness ==
  Returned /\ ~result.success /\ result.error = ErrRenderTimeout
    /\ Len(execLog) >= 1 /\ LastPhase = "error"

\* ---- C11
\* how often path p was the target of a delete request in this run
Deletes(p) == Cardinality({n \in 1..Len(deleteLog) : deleteLog[n] = p})

PartPathsOfRun == {getPartFilename(k) : k \in 0..(TotalChunks - 1)}

\* what a cleanup leaves visible outside the controller
Footprint(s) ==
  [worker |-> s.worker, fs |-> s.fs, request |-> s.request,
   messageId |-> s.messageId, deleteLog |-> s.deleteLog,
   terminateCalls |-> s.terminateCalls, disposeCalls |-> s.disposeCalls,
   result |-> s.result, isRunning |-> s.isRunning, pc |-> s.pc]

\* C11: cleanup is idempotent.  ChunkedEncoder.cleanup runs a second time
\* whenever mergeChunks has already run it (the controller's cleanup
\* follows), also after a failed merge: over the whole run no part file is
\* the target of more than one delete request and the worker is terminated at
\* most once; once start() has returned (never by throwing), a further
\* ExportController.cleanup or FFmpegBridge.terminate sends nothing to the
\* engine, terminates and disposes nothing and throws nothing.
C11_CleanupIdempotent ==
  /\ \A p \in PartPathsOfRun : Deletes(p) <= 1
  /\ terminateCalls <= 1
  /\ Returned =>
       /\ ~result.rejected
       /\ Footprint(cleanup(Cur)) = Footprint(Cur)
       /\ terminate(Cur) = Cur

\* a failed merge of two or more parts: ChunkedEncoder.cleanup ran in
\* mergeChunks and again in the controller's cleanup
C11_Witness ==
  /\ Returned /\ ~result.success /\ ConcatIssued
  /\ Deletes(listPath) = 2 /\ Deletes(getPartFilename(1)) = 1
  /\ terminateCalls = 1

\* ---- C12
\* the frame files in engine storage: the files inside a directory
FrameFiles == {p \in DOMAIN fs : \E n \in 1..Len(p) : p[n] = "/"}

FrameFilesOf(k) ==
  {p \in DOMAIN fs : IsPrefix(getChunkDirName(k) \o <<"/">>, p)}

SinglePart == TotalFrames <= config.chunkFrames

\* C13: when totalFrames <= chunkFrames, mergeChunks writes no list and
\* issues no concat command; the bytes it holds after the read are the content
\* of part_000.mov (still in storage when the read has just settled), and
\* these bytes are what start() returns.
C13_SinglePartReadBack ==
  SinglePart =>
    /\ ~ConcatIssued
    /\ pc \notin {"mergeWriteList", "execConcat", "mergeRead"}
    /\ listPath \notin DOMAIN fs /\ outputPath \notin DOMAIN fs
    /\ pc = "cleanupPart" /\ ret = "merged" =>
         /\ partPaths = <<getPartFilename(0)>>
         /\ request.type = "deleteFile" /\ request.path = getPartFilename(0)
         /\ data = fs[getPartFilename(0)]
         /\ data = [n \in 1..TotalFrames |-> n - 1]
    /\ pc = "cleanupFile" /\ ret = "merged" => data = [n \in 1..TotalFrames |-> n - 1]
    /\ ret = "controller" /\ outcome.success => outcome.blob = data
    /\ Returned /\ result.success =>
         result.blob = [n \in 1..TotalFrames |-> n - 1]

\* a successful run whose frames all fit in one chunk
C13_Witness ==
  /\ SinglePart /\ TotalFrames >= 2
  /\ Returned /\ result.success /\ Len(execLog) = 1
  /\ result.blob = [n \in 1..TotalFrames |-> n - 1]

\* ---- C14
\* the operations in flight: where start() is suspended, the request the
\* worker has not answered, the worker and its storage, the renderAt calls
\* that have not settled
InFlight(s) ==
  [pc |-> s.pc, request |-> s.request, worker |-> s.worker,
   isReady |-> s.isReady, fs |-> s.fs, pendingRenders |-> s.pendingRenders]

\* the renderAt calls of the current run that have not settled
PendingOfRun == {r \in pendingRenders : r.run = runs}

\* cancel() leaves what is in flight alone, the request that was pending when
\* cancel() was called has been answered when 'cancelled' is reported, and
\* the worker is terminated only in cleanup with no request unanswered
CancelAwaitsRequests ==
  /\ InFlight(cancel(Cur)) = InFlight(Cur)
  /\ LastPhase = "cancelled" =>
       request = NoRequest \/ request.id > cancelInfo.messageId
  /\ worker = "terminated" => cleanups = 1 /\ request = NoRequest
  /\ terminateCalls > 0 => cleanups = 1

\* C14 as stated: in addition, when the run reports 'cancelled' every
\* renderAt call of the run has settled.
C14_CancelAwaitsInFlight ==
  /\ CancelAwaitsRequests
  /\ LastPhase = "cancelled" => PendingOfRun = {}

\* C14, amended: when the run reports 'cancelled', a renderAt call of the run
\* is still outstanding only if its render deadline has passed (the run then
\* fails with the render timeout).
C14_CancelAwaitsUntilDeadline ==
  /\ CancelAwaitsRequests
  /\ LastPhase = "cancelled" /\ outcome.error # ErrRenderTimeout =>
       PendingOfRun = {}
  /\ Cardinality(PendingOfRun) <= 1

\* cancel() arrived while a frame write was pending and while a renderAt was
\* outstanding, respectively; the run has ended 'cancelled'
C14_Witness ==
  /\ Returned /\ LastPhase = "cancelled" /\ worker = "terminated"
  /\ cancelInfo.called /\ cancelInfo.pc \in {"writeFrame", "renderAt"}
  /\ cancelInfo.pc = "writeFrame" => cancelInfo.messageId >= 3
  /\ PendingOfRun = {}

\* ---- C15
\* C15: a 'cancelled' event is delivered only in a run during which cancel()
\* was called; a run that fails without a cancel() call of its own ends in
\* phase 'error' (a cancel() before start() does not count: start() resets
\* the flag).
C15_CancelledOnlyIfCancelCalled ==
  /\ HasPhase(events, "cancelled") => cancelInfo.called /\ ~cancelInfo.terminal
  /\ Returned /\ ~result.success /\ ~cancelInfo.called => LastPhase = "error"

\* a second run that failed in the engine with no cancel() call of its own
C15_Witness ==
  /\ Returned /\ runs = 2 /\ ~cancelInfo.called
  /\ LastPhase = "error" /\ result.error = ErrEngine /\ Len(execLog) >= 1

\* ---- C16
\* the run has failed (or was cancelled): an error is held by a catch block
\* or is the pending return value
Failed == isRunning /\ (error # "" \/ outcome.error # "")

\* no frame index was passed to renderAt twice in this run
RenderedOnce ==
  \A m, n \in 1..Len(renderLog) :
    m # n => renderLog[m].frame # renderLog[n].frame

\* C16: no stage retries.  In every run each frame index is passed to
\* renderAt at most once; in the step in which a render or an engine command
\* fails, and in every later step of the run, no renderAt call and no encode
\* or concat command is issued; the only requests sent after the failure are
\* deletes.
C16_NoRetry ==
  /\ [](RenderedOnce /\
        (Failed /\ request # NoRequest =>
           request.type \in {"deleteFile", "deleteDir"}))
  /\ [][isRunning /\ (Failed \/ Failed') =>
          renderLog' = renderLog /\ execLog' = execLog]_vars

\* a renderAt rejected in a later chunk, after an encode command: the run
\* ended with start() returning that failure
C16_Witness ==
  /\ Returned /\ result.error = ErrRenderFailed
  /\ Len(execLog) >= 1 /\ Len(renderLog) >= 2 /\ Len(deleteLog) >= 3

\* ---- C17
\* C17: while a run is in progress, a start() call returns
\* {success: false, error} at once and changes nothing else: the state after
\* the call is the state before it (cancellation flags, position of the
\* running start(), engine, progress events, cleanup count), so the running
\* export goes on as if the call had not been made.
C17_StartWhileRunning ==
  /\ isRunning =>
       LET t == startRefused(Cur)
           r == t.refusals[Len(t.refusals)]
       IN /\ [t EXCEPT !.refusals = refusals] = Cur
          /\ r.returned /\ ~r.rejected /\ ~r.success /\ r.error = ErrRunning
  /\ \A n \in 1..Len(refusals) :
       ~refusals[n].success /\ refusals[n].error = ErrRunning
  /\ pc # "idle" <=> isRunning

\* a start() call was refused during the first run, which went on to
\* complete a multi-chunk export
C17_Witness ==
  /\ Returned /\ runs = 1 /\ Len(refusals) = 1
  /\ result.success /\ LastPhase = "done" /\ cleanups = 1 /\ TotalChunks >= 2

\* ---- C18
PercentsOf(phase) == {events[n].percent : n \in {m \in 1..Len(events) : events[m].phase = phase}}

\* C18: every delivered percent is an integer in [0,100]; rendering events
\* report a value in [0,60], encoding events a value in [60,95], the merging
\* event 95 and the done event 100; with 60 frames in chunks of 30 the value
\* computed when chunk 0 is fully encoded (30 frames of 60) lies in [60,78].
C18_PercentRanges ==
  /\ \A n \in 1..Len(events) : events[n].percent \in 0..100
  /\ PercentsOf("rendering") \subseteq 0..60
  /\ PercentsOf("encoding") \subseteq 60..95
  /\ PercentsOf("merging") \subseteq {95}
  /\ PercentsOf("done") \subseteq {100}
  /\ calculatePercent(30, 60, "encoding") \in 60..78
  /\ calculatePercent(30, 60, "encoding") \in Nat

\* a complete multi-chunk run: its events reach both ends of both ranges
C18_Witness ==
  /\ Returned /\ LastPhase = "done" /\ TotalChunks >= 2
  /\ {0, 60} \subseteq PercentsOf("rendering")
  /\ 95 \in PercentsOf("encoding")
  /\ \E x \in PercentsOf("encoding") : x < 95
  /\ PercentsOf("merging") = {95} /\ PercentsOf("done") = {100}

\* ---- C19
\* the frames of the chunk in progress before frame n, captured in order
CapturedBefore(n) ==
  [k \in 1..(n - startFrame(Cur)) |-> <<startFrame(Cur) + k - 1>>]

\* renderAt for a frame is outstanding only after every earlier frame of the
\* chunk was rendered and captured, and nothing of this run is outstanding
\* during the capture and the yield
RenderThenCapture ==
  /\ pc = "renderAt" =>
       /\ PendingOfRun = {[run |-> runs, frame |-> i]}
       /\ frames = CapturedBefore(i)
  /\ pc \in {"capture", "yield"} =>
       /\ PendingOfRun = {}
       /\ frames = CapturedBefore(IF pc = "yield" THEN i + 1 ELSE i)

\* C19 as stated: in addition the frame source never has two renderAt calls
\* outstanding at the same time.
C19_OneRenderAtOutstanding ==
  /\ RenderThenCapture
  /\ Cardinality(pendingRenders) <= 1

\* C19, amended: no two renderAt calls of the same run are outstanding at the
\* same time (a call abandoned at its deadline by an earlier run can still be
\* outstanding).
C19_OneRenderAtPerRun ==
  /\ RenderThenCapture
  /\ Cardinality(PendingOfRun) <= 1
  /\ \A r \in pendingRenders : r.run <= runs
  /\ \A r1, r2 \in pendingRenders : r1.run = r2.run => r1 = r2

\* the second frame of a later chunk is being rendered while a renderAt call
\* of the previous run, abandoned at its deadline, has not settled
C19_Witness ==
  /\ pc = "renderAt" /\ chunkIndex >= 1 /\ Len(frames) >= 1
  /\ PendingOfRun = {[run |-> runs, frame |-> i]}
  /\ \E r \in pendingRenders : r.run < runs

\* ---- C20
\* is x/y the same fraction as the record t
SameTime(t, x, y) == t.num * y = x * t.den

\* C20: the (frameIndex, sourceTime) pairs requested from the frame source
\* are, in order, those of frames 0, 1, 2, ... with a time computed from
\* fps, playbackRate and the source's duration only: every run requests a
\* prefix of this one sequence, whatever the run number, the order in which
\* renders and engine requests settled, cancellations and refused starts.
C20_SamplingDeterministic ==
  /\ Len(renderLog) <= TotalFrames
  /\ \A n \in 1..Len(renderLog) :
       LET raw == (n - 1) * config.playbackRate.num * TicksPerSecond
           per == config.fps * config.playbackRate.den
           cyc == env.sourceTicks * per
           t == renderLog[n].time
       IN /\ renderLog[n].frame = n - 1
          /\ t.den > 0 /\ t.num >= 0
          /\ cyc = 0 => SameTime(t, raw, per * TicksPerSecond)
          /\ cyc > 0 => SameTime(t, raw % cyc, per * TicksPerSecond)
  /\ Returned /\ result.success => Len(renderLog) = TotalFrames

\* a second run completed, at another rate than 1 and with a source shorter
\* than the export, so that the time wrapped around
C20_Witness ==
  /\ Returned /\ result.success /\ runs = 2 /\ TotalFrames >= 3
  /\ config.playbackRate # DefaultRate /\ env.sourceTicks > 0
  /\ \E n \in 2..Len(renderLog) :
       renderLog[n].time.num < renderLog[n - 1].time.num

\* ---- C21
\* x/y = (frame / fps) * playbackRate - k * sourceDuration, all in seconds,
\* with numerators and denominators multiplied out
ReducedBy(t, frame, k) ==
  (frame * config.playbackRate.num * t.den
     - t.num * config.fps * config.playbackRate.den) * TicksPerSecond
    = k * env.sourceTicks * config.fps * config.playbackRate.den * t.den

\* the time t lies in [0, sourceDuration)
InSourceRange(t) ==
  t.num >= 0 /\ t.num * TicksPerSecond < env.sourceTicks * t.den

\* C21: the time passed to renderAt for frame f is (f / fps) * playbackRate
\* when the source's duration is 0; when it is > 0 the time lies in
\* [0, sourceDuration) and differs from (f / fps) * playbackRate by a whole
\* number of source durations.  totalFrames, as reported in the progress
\* events, is the least integer that is >= duration * fps.
C21_SourceTimeFormula ==
  /\ \A n \in 1..Len(renderLog) :
       LET t == renderLog[n].time
           f == renderLog[n].frame
       IN /\ t.den > 0
          /\ env.sourceTicks = 0 =>
               t.num * config.fps * config.playbackRate.den
                 = f * config.playbackRate.num * t.den
          /\ env.sourceTicks > 0 =>
               /\ InSourceRange(t)
               /\ \E k \in 0..(f * config.playbackRate.num * TicksPerSecond) :
                    ReducedBy(t, f, k)
  /\ \A n \in 1..Len(events) :
       events[n].phase \in {"rendering", "encoding", "merging", "done"} =>
         /\ events[n].totalFrames * TicksPerSecond >= config.ticks * config.fps
         /\ (events[n].totalFrames - 1) * TicksPerSecond < config.ticks * config.fps

\* a frame is being rendered at a time that was reduced by at least one
\* full source duration, at double speed
C21_Witness ==
  /\ pc = "renderAt" /\ env.sourceTicks > 0 /\ config.playbackRate.num = 2
  /\ LET t == renderLog[Len(renderLog)].time
     IN /\ InSourceRange(t)
        /\ \E k \in 1..(i * config.playbackRate.num * TicksPerSecond) :
             ReducedBy(t, i, k)

\* ---- C22
\* everything but the set of outstanding renderAt calls
SessionVars ==
  <<config, env, isRunning, cancelled, frameRenderer, ffmpegBridge,
    chunkedEncoder, pc, chunkIndex, frames, i, j, error, data, ret, outcome,
    rendererCancelled, encoderCancelled, partPaths, worker, isReady,
    messageId, request, isLoaded, fs, disposeCalls, renderLog, events,
    execLog, cleanups, cancelInfo, result, runs, deleteLog, terminateCalls,
    refusals>>

\* the renderAt call start() is awaiting, if any
Awaited == IF pc = "renderAt" THEN {[run |-> runs, frame |-> i]} ELSE {}

\* the run has abandoned a renderAt call at its deadline
TimedOut == outcome.error = ErrRenderTimeout

\* what follows a render timeout: the terminal event is 'error', or
\* 'cancelled' when cancel() was called before; the frame that timed out is
\* the last one passed to renderAt and was passed once; no encode command was
\* sent for its chunk
TimeoutIsFatal ==
  /\ PendingOfRun \ Awaited # {} => TimedOut
  /\ TimedOut =>
       /\ HasTerminal(events)
       /\ LastPhase = (IF cancelInfo.called /\ ~cancelInfo.terminal
                       THEN "cancelled" ELSE "error")
       /\ renderLog # <<>>
       /\ PendingOfRun \subseteq
            {[run |-> runs, frame |-> renderLog[Len(renderLog)].frame]}
       /\ RenderedOnce
       /\ \A n \in 1..Len(execLog) :
            execLog[n].cmd = "encode"
              /\ execLog[n].chunk < renderLog[Len(renderLog)].chunk
       /\ Returned => ~result.success /\ result.error = ErrRenderTimeout

\* C22: a renderAt that does not settle before its deadline fails the frame
\* with the timeout error; the run ends in 'error' ('cancelled' only if
\* cancel() was called too), the frame is not retried and its chunk is not
\* encoded; when the abandoned renderAt settles later, nothing of the
\* session changes.
C22_RenderTimeout ==
  /\ []TimeoutIsFatal
  /\ [][(\E r \in pendingRenders \ Awaited : r \notin pendingRenders')
          => UNCHANGED SessionVars]_vars

\* a render in a later chunk timed out, the run returned the timeout error
\* and the abandoned renderAt has settled since
C22_Witness ==
  /\ Returned /\ result.error = ErrRenderTimeout /\ LastPhase = "error"
  /\ Len(execLog) >= 1 /\ Len(renderLog) >= 2 /\ PendingOfRun = {}

\* ---- C23
\* start() has returned because the runtime lacks WebAssembly
NoWasmReturned == Returned /\ result.error = ErrNoWasm

\* start() has returned because loading the engine failed
LoadFailedReturned == Returned /\ result.error = ErrEngine /\ ~isLoaded

\* before the engine is loaded, and when start() has returned for one of
\* the two reasons, nothing was rendered, written or encoded in this run
NothingStarted ==
  /\ pc \in {"waitReady", "load"} \/ NoWasmReturned \/ LoadFailedReturned =>
       /\ renderLog = <<>> /\ execLog = <<>> /\ deleteLog = <<>>
       /\ ~HasPhase(events, "rendering") /\ ~HasPhase(events, "encoding")
       /\ ~result.success
  /\ pc \in {"waitReady", "load"} \/ LoadFailedReturned =>
       fs = EmptyFs /\ messageId <= 1
  /\ NoWasmReturned => ~env.hasWasm /\ terminateCalls = 0 /\ Len(events) = 2

\* C23 as stated: in addition the terminal phase of such a run is 'error'.
C23_InitFailureIsError ==
  /\ NothingStarted
  /\ NoWasmReturned \/ LoadFailedReturned => LastPhase = "error"

\* C23, amended: the terminal phase is 'error' unless cancel() was called
\* while the engine was starting or loading; then it is 'cancelled'.
C23_InitFailureIsTerminal ==
  /\ NothingStarted
  /\ NoWasmReturned => LastPhase = "error"
  /\ LoadFailedReturned =>
       LastPhase = (IF cancelInfo.called /\ ~cancelInfo.terminal
                    THEN "cancelled" ELSE "error")

\* loading the engine failed in the first run and start() has returned
C23_Witness ==
  /\ LoadFailedReturned /\ runs = 1 /\ LastPhase = "error"
  /\ messageId = 1 /\ worker = "terminated" /\ Len(events) = 2

\* ---- C24
\* the frames of this run whose renderFrame has returned: all frames passed
\* to renderAt, but the last one while it is being rendered or captured or
\* when its render or capture failed
CompletedFrames ==
  LET open == \/ pc \in {"renderAt", "capture"}
              \/ outcome.error \in {ErrRenderTimeout, ErrRenderFailed,
                                    ErrCaptureFailed}
  IN {renderLog[n].frame :
        n \in 1..(Len(renderLog) - (IF open THEN 1 ELSE 0))}

Delivered(phase, chunk) ==
  \E n \in 1..Len(events) :
    events[n].phase = phase /\ events[n].currentChunk = chunk

MergePcs == {"mergeReadSingle", "mergeWriteList", "execConcat", "mergeRead"}

\* C24: for every frame whose render has completed a 'rendering' event with
\* currentFrame = index + 1 was delivered; a run's first event is
\* 'initializing'; a 'rendering' event for chunk k was delivered before the
\* first renderAt of chunk k, an 'encoding' event for chunk k before the
\* first engine request of encodeChunk(k), the 'merging' event before
\* mergeChunks, and the last event of a run that has returned is terminal.
C24_ProgressDelivered ==
  /\ \A f \in CompletedFrames :
       \E n \in 1..Len(events) :
         events[n].phase = "rendering" /\ events[n].currentFrame = f + 1
  /\ isRunning \/ Returned =>
       events # <<>> /\ events[1].phase = "initializing"
  /\ \A n \in 1..Len(renderLog) : Delivered("rendering", renderLog[n].chunk)
  /\ pc \in EncodePcs => Delivered("encoding", chunkIndex)
  /\ \A n \in 1..Len(execLog) :
       execLog[n].cmd = "encode" => Delivered("encoding", execLog[n].chunk)
  /\ pc \in MergePcs \/ ConcatIssued => HasPhase(events, "merging")
  /\ Returned => LastPhase \in TerminalPhases

\* a complete run of several chunks of several frames
C24_Witness ==
  /\ Returned /\ LastPhase = "done" /\ TotalChunks >= 2
  /\ config.chunkFrames >= 2
  /\ CompletedFrames = 0..(TotalFrames - 1)
  /\ \A k \in 0..(TotalChunks - 1) :
       Delivered("rendering", k) /\ Delivered("encoding", k)

\* ---- C25
\* C25: once cancel() has been called during a run, no encode command is
\* sent to the engine: every encode command of the run was sent before the
\* call.
C25_NoEncodeAfterCancel ==
  cancelInfo.called =>
    \A n \in 1..Len(execLog) :
      execLog[n].cmd = "encode" => n <= cancelInfo.execs


\* the encode commands sent after cancel() was called
EncodesAfterCancel ==
  {n \in 1..Len(execLog) : execLog[n].cmd = "encode" /\ n > cancelInfo.execs}

\* C25, amended: after cancel() at most one encode command is sent, and only
\* when cancel() arrived while the last frame of a chunk was being written:
\* the command is for that chunk and is the very next engine request after
\* the write that was pending; no concat command follows.
C25_OneEncodeAfterLastWrite ==
  cancelInfo.called /\ EncodesAfterCancel # {} =>
    /\ EncodesAfterCancel = {cancelInfo.execs + 1}
    /\ cancelInfo.pc = "writeFrame"
    /\ execLog[cancelInfo.execs + 1].chunk = cancelInfo.chunk
    /\ pc = "execEncode" => request.id = cancelInfo.messageId + 1
    /\ Len(execLog) = cancelInfo.execs + 1
    /\ HasTerminal(events) => LastPhase = "cancelled"

\* cancel() arrived during the last frame write of a chunk of several
\* frames; the chunk was encoded all the same and the run ended 'cancelled'
C25_Witness ==
  /\ Returned /\ LastPhase = "cancelled" /\ cancelInfo.called
  /\ cancelInfo.pc = "writeFrame" /\ config.chunkFrames >= 2
  /\ EncodesAfterCancel = {cancelInfo.execs + 1}

\* ---- C26
\* the chunk directories and the files inside them
ChunkScratch ==
  {p \in DOMAIN fs : \E k \in 0..TotalChunks : IsPrefix(getChunkDirName(k), p)}

C27_StartReturns ==
  isRunning ~> (Returned /\ ~isRunning /\ LastPhase \in TerminalPhases)

\* the second run has returned after a cancellation, with a start() call
\* refused on the way
C27_Witness ==
  /\ Returned /\ ~isRunning /\ runs = 2 /\ Len(refusals) = 1
  /\ LastPhase = "cancelled" /\ cancelInfo.pc = "execConcat"

\* ---- C28
\* C28: once cancel() has been called during a run, no renderAt call is
\* started any more in that run; a run cancelled while a chunk is being
\* rendered never reaches the encoding stage with that chunk, and the frame
\* array handed to encodeChunk always holds all the frames of its chunk,
\* in order.
C28_NoRenderAfterCancel ==
  /\ cancelInfo.called => Len(renderLog) = cancelInfo.renders
  /\ (cancelInfo.called /\ cancelInfo.pc \in RenderPcs) =>
       /\ pc \notin EncodePcs
       /\ Len(execLog) = cancelInfo.execs
  /\ pc \in EncodePcs =>
       /\ Len(frames) = frameCount(Cur)
       /\ \A n \in 1..Len(frames) : frames[n] = <<startFrame(Cur) + n - 1>>

\* a run cancelled while the first frame of a chunk of several frames was
\* being rendered has returned
C28_Witness ==
  /\ Returned /\ LastPhase = "cancelled"
  /\ cancelInfo.called /\ cancelInfo.pc \in RenderPcs
  /\ cancelInfo.renders = 1 /\ Len(renderLog) = 1
  /\ frameCount([Cur EXCEPT !.chunkIndex = cancelInfo.chunk]) > 1

\* ---- C29
\* start() is inside mergeChunks: at one of its awaits, or in the
\* ChunkedEncoder.cleanup that mergeChunks awaits
InMergeChunks ==
  \/ pc \in MergePcs
  \/ pc \in {"cleanupPart", "cleanupFile"} /\ ret \in {"merged", "mergeFailed"}

\* mergeChunks was called in this run and has returned or thrown
MergeLeft == HasPhase(events, "merging") /\ ~InMergeChunks

\* the part files, the concat list and the merged output
MergeArtifacts == PartPathsOfRun \cup {listPath, outputPath}

MergeScratchReleased ==
  /\ MergeArtifacts \cap DOMAIN fs = {}
  /\ partPaths = <<>>

\* the run has failed in or after the merge of a single part
SingleMergeFailed == SinglePart /\ MergeLeft /\ ~outcome.success

C29_WitnessConcat ==
  /\ MergeLeft /\ ~SinglePart /\ ~outcome.success /\ isRunning
  /\ ConcatIssued /\ MergeScratchReleased /\ Deletes(getPartFilename(1)) = 1

\* ---- C30
\* the frame files n .. m-1 of the chunk in progress hold the frames with the
\* global indices startFrame + n .. startFrame + m - 1
FramesStored(n, m) ==
  \A f \in n..(m - 1) :
    /\ framePath(getChunkDirName(chunkIndex), f) \in DOMAIN fs
    /\ fs[framePath(getChunkDirName(chunkIndex), f)] = <<startFrame(Cur) + f>>

\* the frames with the global indices a .. b-1, in ascending order
FrameRange(a, b) == [n \in 1..(b - a) |-> a + n - 1]

\* C30: the frame with global index g is written once, as file number
\* g - startFrame of its chunk's directory: while the write of file j is
\* pending, the directory holds exactly the files 0 .. j-1 with the frames
\* startFrame .. startFrame+j-1 and the request carries frame startFrame+j
\* for a file that does not exist yet; when the encode command is pending the
\* directory holds exactly the chunk's frames.  Every part file of the
\* encoder's list holds its chunk's frames in ascending order, the concat
\* list names the parts in chunk order, and a successful run returns the
\* frames 0 .. totalFrames-1 in ascending order.
C30_FramesWrittenOnce ==
  /\ pc = "writeFrame" =>
       /\ request.type = "writeFile"
       /\ request.path = framePath(getChunkDirName(chunkIndex), j)
       /\ request.data = <<startFrame(Cur) + j>>
       /\ request.path \notin DOMAIN fs
       /\ FramesStored(0, j)
       /\ Cardinality(FrameFilesOf(chunkIndex)) = j
  /\ pc = "execEncode" =>
       /\ FramesStored(0, frameCount(Cur))
       /\ FrameFiles = FrameFilesOf(chunkIndex)
       /\ Cardinality(FrameFiles) = frameCount(Cur)
  /\ \A n \in 1..Len(partPaths) :
       /\ partPaths[n] = getPartFilename(n - 1)
       /\ partPaths[n] \in DOMAIN fs =>
            fs[partPaths[n]] =
              FrameRange((n - 1) * config.chunkFrames,
                         Min(n * config.chunkFrames, TotalFrames))
  /\ \A n \in 1..Len(execLog) :
       execLog[n].cmd = "concat" =>
         execLog[n].list = generateConcatList([k \in 1..TotalChunks |-> getPartFilename(k - 1)])
  /\ Returned /\ result.success => result.blob = FrameRange(0, TotalFrames)

\* a successful run of two chunks, the second one shorter than the first:
\* frame 2 was written as file 0 of chunk 1
C30_Witness ==
  /\ Returned /\ result.success /\ TotalChunks = 2 /\ TotalFrames = 3
  /\ result.blob = <<0, 1, 2>>
  /\ Deletes(framePath(getChunkDirName(1), 0)) = 1
  /\ Deletes(framePath(getChunkDirName(0), 1)) = 1

\* ---- C33
\* the events before the terminal 'error' or 'cancelled' event
Advancing == {n \in 1..Len(events) : events[n].phase \notin {"error", "cancelled"}}

\* C33: in every progress event 0 <= currentFrame <= totalFrames and
\* 0 <= currentChunk <= totalChunks; over the events of a run that are not
\* the terminal 'error' or 'cancelled' event, 'done' included, neither
\* currentFrame nor currentChunk ever decreases.
C33_ProgressMonotone ==
  /\ \A n \in 1..Len(events) :
       /\ 0 <= events[n].currentFrame
       /\ events[n].currentFrame <= events[n].totalFrames
       /\ 0 <= events[n].currentChunk
       /\ events[n].currentChunk <= events[n].totalChunks
  /\ \A m, n \in Advancing :
       m < n =>
         /\ events[m].currentFrame <= events[n].currentFrame
         /\ events[m].currentChunk <= events[n].currentChunk

\* a successful run of two chunks has delivered 'done' with both counters at
\* their totals
C33_Witness ==
  /\ Returned /\ LastPhase = "done" /\ TotalChunks = 2 /\ TotalFrames = 3
  /\ events[Len(events)].currentFrame = 3 /\ events[Len(events)].currentChunk = 2
  /\ \E n \in 1..Len(events) :
       events[n].phase = "encoding" /\ events[n].currentFrame = 2

\* ---- C34
\* start() is suspended in the encoder's cleanup awaited by
\* ExportController.cleanup
InControllerCleanup == pc \in {"cleanupPart", "cleanupFile"} /\ ret = "controller"

NoReferences == ~frameRenderer /\ ~ffmpegBridge /\ ~chunkedEncoder

\* C34: isRunning is true exactly while a start() call that passed the guard
\* has not returned, the controller's cleanup included, so that a start()
\* issued during the cleanup is refused; whenever isRunning is false the
\* controller holds no frame renderer, no bridge and no chunk encoder.  The
\* step that resets isRunning is the one in which the controller's cleanup
\* completes and start() returns.
C34_RunningUntilCleanup ==
  /\ [](/\ isRunning <=> pc # "idle"
        /\ ~isRunning => NoReferences
        /\ InControllerCleanup =>
             /\ isRunning /\ cleanups = 1
             /\ LET t == startRefused(Cur)
                IN /\ Len(t.refusals) = Len(refusals) + 1
                   /\ t.refusals[Len(t.refusals)].error = ErrRunning
                   /\ t.isRunning /\ t.pc = pc /\ t.request = request)
  /\ [][isRunning /\ ~isRunning' =>
          /\ cleanups' = 1 /\ result'.returned /\ pc' = "idle"
          /\ ~frameRenderer' /\ ~ffmpegBridge' /\ ~chunkedEncoder'
          /\ worker' \in {"none", "terminated"}]_vars

\* a failed run has returned, a start() call was refused on the way, and the
\* controller has dropped the renderer, the terminated bridge and the encoder
C34_Witness ==
  /\ Returned /\ ~isRunning /\ NoReferences /\ Len(refusals) = 1
  /\ ~result.success /\ worker = "terminated" /\ disposeCalls = 1
  /\ Len(deleteLog) >= 3

\* ---- C35
\* C35: cancel() called while no run is in progress changes nothing but the
\* controller's flag (there is no renderer and no encoder to forward it to),
\* and the next start() does the same with or without it.  A run begins
\* with the flag cleared and with a renderer, and later an encoder, whose
\* own flags are clear: as long as cancel() was not called during the run,
\* none of the three flags is set.
C35_IdleCancelHasNoEffect ==
  /\ [](/\ pc = "idle" =>
             /\ [cancel(Cur) EXCEPT !.cancelled = cancelled] = Cur
             /\ cancel(Cur).cancelled
             /\ \A ok \in BOOLEAN : start(cancel(Cur), ok) = start(Cur, ok)
        /\ isRunning /\ ~cancelInfo.called =>
             /\ ~cancelled
             /\ frameRenderer => ~rendererCancelled
             /\ chunkedEncoder => ~encoderCancelled
             /\ ~HasPhase(events, "cancelled"))
  /\ [][~isRunning /\ cancelled /\ isRunning' =>
          ~cancelled' /\ ~cancelInfo'.called /\ events'[1].phase = "initializing"]_vars

\* the first run has completed its export and cancel() was called after it
\* had returned: the flag is set while no run is in progress, and a second
\* start() is possible
C35_Witness ==
  /\ Returned /\ runs = 1 /\ runs < MaxRuns /\ result.success /\ LastPhase = "done"
  /\ cancelled /\ ~isRunning /\ ~cancelInfo.called

\* ---- C31
SentCalls == {c \in 1..Len(sends) : sends[c].id # NoId}

PendingIds == {sends[c].id : c \in {k \in 1..Len(sends) : sends[k].status = "sent"}}

\* C31: every request id is a new one (1, 2, ... in the order the calls take
\* them); the handler map holds, under the id of each request that awaits
\* its response, the handler of the call that sent it, and nothing else; a
\* call is settled at most once, by the response that carries its id and
\* according to that response's success field, and its handler is gone from
\* the map afterwards.  The step that settles a call dispatches a response
\* with that call's id and settles no other call: 'ready', 'progress' and
\* 'log' messages, and the response to the terminate message, settle nothing.
C31_ResponsesMatchedById ==
  /\ [](/\ \A c, k \in SentCalls : c # k => sends[c].id # sends[k].id
        /\ {sends[c].id : c \in SentCalls} = 1..bridge.messageId
        /\ DOMAIN bridge.messageHandlers \subseteq PendingIds
        /\ bridge.worker => DOMAIN bridge.messageHandlers = PendingIds
        /\ \A id \in DOMAIN bridge.messageHandlers :
             sends[bridge.messageHandlers[id]].id = id
        /\ \A c \in 1..Len(sends) :
             /\ sends[c].settled <= 1
             /\ sends[c].settled = 1 =>
                  /\ sends[c].by = sends[c].id
                  /\ sends[c].status \in {"resolved", "rejected"}
                  /\ sends[c].id \notin DOMAIN bridge.messageHandlers
             /\ sends[c].status = "resolved" => sends[c].settled = 1)
  /\ [][\A c \in 1..Len(sends) :
          sends[c].status = "sent" /\ sends'[c].status # "sent" =>
            LET m == Head(workerMessages)
            IN /\ workerMessages # <<>> /\ workerMessages' = Tail(workerMessages)
               /\ m.type = NoType /\ m.id = sends[c].id
               /\ sends'[c].status = (IF m.success THEN "resolved" ELSE "rejected")
               /\ \A k \in 1..Len(sends) : k # c => sends'[k] = sends[k]]_vars

\* two requests were answered in the reverse order of their ids, one with
\* success and one with a failure, with a progress message in between and no
\* progress handler registered; both calls are settled
C31_Witness ==
  /\ Len(sends) = 2 /\ bridge.worker /\ ~bridge.progressHandler
  /\ sends[1].status = "resolved" /\ sends[2].status = "rejected"
  /\ sends[1].settled = 1 /\ sends[2].settled = 1
  /\ Len(workerScope.responses) = 2
  /\ workerScope.responses[1].id = 2 /\ workerScope.responses[2].id = 1
  /\ bridge.messageHandlers = EmptyHandlers /\ workerMessages = <<>>

\* ---- C32
SettledStatus == {"resolved", "rejected"}

\* C32: if the worker starts and works off its queue, every engine call
\* settles, every posted message is dispatched and every resolved await goes
\* on, then every sendMessage call is settled eventually, also a call that
\* awaits its response or the worker's readiness when terminate() is called.
C32_EveryRequestSettles ==
  \A c \in 1..MaxSends :
    (Len(sends) >= c) ~> (Len(sends) >= c /\ sends[c].status \in SettledStatus)

\* the same for the bridges on which terminate() is never called
C32_SettlesUnlessTerminated ==
  ([]bridge.worker) => C32_EveryRequestSettles

\* ---- C39
\* how many responses with this id the worker has posted
ResponsesTo(id) ==
  Cardinality({n \in 1..Len(workerScope.responses) : workerScope.responses[n].id = id})

\* the success field of the response to the request with this id
AnsweredWith(id, success) ==
  \E n \in 1..Len(workerScope.responses) :
    workerScope.responses[n] = Response(id, success)

ReceivedIds == {workerScope.received[n].id : n \in 1..Len(workerScope.received)}

RunningIds == {r.id : r \in workerScope.running}

\* C39: the worker has posted one response, with the request's id, for every
\* request it has received and whose engine call is not in progress any more,
\* none for the others and none without a request.  A request other than
\* 'load' received before a successful load is answered with a failure, at
\* once; a 'load' received after a successful load is answered with success,
\* at once, and the engine is loaded once for each 'load' received before.
C39_OneResponsePerRequest ==
  /\ \A n \in 1..Len(workerScope.responses) :
       workerScope.responses[n].id \in ReceivedIds \ RunningIds
  /\ \A id \in ReceivedIds :
       ResponsesTo(id) = (IF id \in RunningIds THEN 0 ELSE 1)
  /\ \A n \in 1..Len(workerScope.received) :
       LET r == workerScope.received[n]
       IN /\ r.type \notin {"load", "terminate"} /\ ~r.loaded =>
               AnsweredWith(r.id, FALSE)
          /\ r.type = "load" /\ r.loaded => AnsweredWith(r.id, TRUE)
  /\ workerScope.loads =
       Cardinality({n \in 1..Len(workerScope.received) :
                      workerScope.received[n].type = "load"
                      /\ ~workerScope.received[n].loaded})
  /\ workerScope.isLoaded =>
       \E n \in 1..Len(workerScope.received) :
         workerScope.received[n].type = "load"
         /\ AnsweredWith(workerScope.received[n].id, TRUE)

\* a second 'load' was received after the first one had succeeded: both are
\* answered with success and the engine was loaded once
C39_Witness ==
  /\ Len(workerScope.received) = 2 /\ workerScope.loads = 1
  /\ workerScope.received[1].type = "load" /\ ~workerScope.received[1].loaded
  /\ workerScope.received[2].type = "load" /\ workerScope.received[2].loaded
  /\ AnsweredWith(workerScope.received[1].id, TRUE)
  /\ AnsweredWith(workerScope.received[2].id, TRUE)
  /\ workerScope.running = {} /\ workerScope.state = "running"

\* an 'exec' received before the engine was loaded was answered with a
\* failure, and the 'load' that followed with success
C39_WitnessBeforeLoad ==
  /\ Len(workerScope.received) = 2 /\ workerScope.isLoaded
  /\ workerScope.received[1].type = "exec"
  /\ workerScope.responses = <<Response(workerScope.received[1].id, FALSE),
                               Response(workerScope.received[2].id, TRUE)>>

\* ---- C36
NoDuplicates(seq) == \A m, n \in 1..Len(seq) : m # n => seq[m] # seq[n]

Elements(seq) == {seq[n] : n \in 1..Len(seq)}

\* C36: at every moment the cache holds at most maxFrames bitmaps, and
\* lruOrder lists exactly the cached frame indices, each once, from the least
\* to the most recently inserted or accessed one.  When the completion of a
\* render makes a frame leave the cache, the cache was full and the frame
\* was the least recently inserted or accessed one (or, with room for no
\* other, the only one).
C36_LruBound ==
  /\ [](/\ Cardinality(DOMAIN frameCache.cache) <= frameCache.maxFrames
        /\ NoDuplicates(frameCache.lruOrder)
        /\ Elements(frameCache.lruOrder) = DOMAIN frameCache.cache
        /\ frameCache.lruOrder = cacheHistory.recency)
  /\ [][renders' # renders =>
          \A f \in DOMAIN frameCache.cache \ DOMAIN frameCache'.cache :
            /\ Cardinality(DOMAIN frameCache.cache) = frameCache.maxFrames
            /\ f = Head(cacheHistory.recency)
            /\ Cardinality(DOMAIN frameCache'.cache) = frameCache.maxFrames]_vars

\* a cache of two: the frames 0, 1 and 2 were rendered in this order, frame 0
\* was accessed before frame 2 came in, and frame 1 was evicted
C36_Witness ==
  /\ frameCache.maxFrames = 2 /\ cacheHistory.started = 3
  /\ DOMAIN frameCache.cache = {0, 2}
  /\ frameCache.cache[0] = 1 /\ frameCache.cache[2] = 3
  /\ frameCache.lruOrder = <<0, 2>>
  /\ cacheHistory.stale = {} /\ renders = {}

\* ---- C37
CacheFrames == 0..(CacheTotalFrames - 1)

\* the onRenderFrame invocations in flight for a frame
RendersOf(f) == {r \in renders : r.frame = f}

\* the getOrRender calls of a frame that await their bitmap
PendingCallsOn(f) ==
  {n \in 1..Len(cacheCalls) :
     cacheCalls[n].status = "pending" /\ cacheCalls[n].frame = f}

\* C37: at every moment at most one onRenderFrame invocation per frame index
\* is in flight, and the getOrRender calls that await the same frame await
\* the same render.
C37_OneRenderPerFrame ==
  \A f \in CacheFrames :
    /\ Cardinality(RendersOf(f)) <= 1
    /\ \A m, n \in PendingCallsOn(f) : cacheCalls[m].render = cacheCalls[n].render

\* what the code does keep: as long as no clear() has come while a render
\* was in flight, pendingRenders names exactly the renders in flight, one
\* per frame index, and the calls that await a frame await that render
C37_OneRenderPerFrameUntilClear ==
  cacheHistory.stale = {} =>
    /\ renders = {[id |-> frameCache.pendingRenders[f], frame |-> f] :
                    f \in DOMAIN frameCache.pendingRenders}
    /\ \A f \in CacheFrames : \A n \in PendingCallsOn(f) :
         /\ f \in DOMAIN frameCache.pendingRenders
         /\ cacheCalls[n].render = frameCache.pendingRenders[f]

\* getOrRender(0), clear(), getOrRender(0): two renders of frame 0 in flight,
\* one caller on each
C37_TwoRendersOfOneFrame ==
  /\ Len(cacheCalls) = 2 /\ cacheHistory.started = 2
  /\ renders = {[id |-> 1, frame |-> 0], [id |-> 2, frame |-> 0]}
  /\ cacheCalls[1] = [frame |-> 0, render |-> 1, status |-> "pending", bitmap |-> 0]
  /\ cacheCalls[2] = [frame |-> 0, render |-> 2, status |-> "pending", bitmap |-> 0]
  /\ cacheHistory.stale = {1} /\ ~frameCache.disposed

\* ---- C38
\* C38: a render that was in flight at a clear() or a dispose() never puts its
\* bitmap in the cache; once disposed the cache is empty and getOrRender of
\* any frame is rejected.
C38_ClearedRendersNeverCached ==
  /\ \A f \in DOMAIN frameCache.cache :
       frameCache.cache[f] \notin cacheHistory.stale
  /\ frameCache.disposed =>
       /\ frameCache.cache = NoFrames
       /\ \A f \in CacheFrames :
            LET calls == getOrRender(CacheCur, f).calls
            IN calls[Len(calls)].status = "rejected"

\* what the code does keep: a disposed cache stays disposed and empty, starts
\* no render and rejects getOrRender, and a render in flight at the dispose()
\* adds nothing on completion
C38_DisposedStaysEmpty ==
  /\ [](frameCache.disposed =>
          /\ frameCache.cache = NoFrames /\ frameCache.lruOrder = <<>>
          /\ \A f \in CacheFrames :
               LET calls == getOrRender(CacheCur, f).calls
               IN calls[Len(calls)].status = "rejected")
  /\ [][frameCache.disposed =>
          /\ frameCache'.disposed
          /\ cacheHistory'.started = cacheHistory.started]_vars

\* getOrRender(0), clear(), then the render completes: frame 0 is cached
\* with the bitmap of the render that clear() was to forget
C38_StaleBitmapCached ==
  /\ cacheHistory.started = 1 /\ cacheHistory.stale = {1} /\ renders = {}
  /\ DOMAIN frameCache.cache = {0} /\ frameCache.cache[0] = 1
  /\ ~frameCache.disposed

\* a render in flight at dispose() has completed and the cache is empty
C38_DisposedWitness ==
  /\ frameCache.disposed /\ cacheHistory.started = 1
  /\ cacheHistory.stale = {1} /\ renders = {}
  /\ Len(cacheCalls) = 2
  /\ cacheCalls[1].status = "resolved" /\ cacheCalls[1].bitmap = 1
  /\ cacheCalls[2].status = "rejected"
  /\ frameCache.cache = NoFrames

====
